---- MODULE Spec2Model ----
(***************************************************************************)
(* Temporal camera engine of the autozoom video editor                     *)
(* (src/src/components/video-editor.tsx).                                  *)
(*                                                                         *)
(* Units.  JavaScript numbers are modelled as exact fixed-point integers:  *)
(*   time      1 unit = 0.01 s   (0.05 s = 5, 0.5 s = 50, 3.0 s = 300)     *)
(*   zoom      1 unit = 0.01     (zoom 1 = 100, zoom 2.5 = 250)            *)
(*   x, y      1 unit = 1 percent                                          *)
(* An interpolated pose is an exact rational: numerators zoom, x, y over   *)
(* the common denominator den.                                             *)
(*                                                                         *)
(* The source file holds two versions of the VideoEditor component: the    *)
(* earlier one (lines 1-473), whose keyframe list is edited directly, and  *)
(* the region-based one (lines 475-1389), whose keyframe list is derived   *)
(* from manualKeyframes and zoomRegions.  LegacySpec runs the earlier      *)
(* component, Spec the region-based one; both use the state variables of   *)
(* the same name.                                                          *)
(*                                                                         *)
(* The playhead (videoRef.current.currentTime) and the sliders (zoomLevel, *)
(* panX, panY) belong to the control surface: a handler that reads them    *)
(* takes their values as inputs.  Where a process writes the playhead      *)
(* (export, the earlier motion analysis, timeline clicks) it is the field   *)
(* currentTime of the state variable video.                                *)
(*                                                                         *)
(* Specifications: Spec and LegacySpec (the editing handlers), SampleSpec  *)
(* and CompileSpec (the interpolators and the compile as functions),       *)
(* ExportSpec and ExportEditSpec (the export loop with playback controls   *)
(* and with edits), AnalysisSpec (the earlier motion analysis, await by    *)
(* await), SmoothSpec (the preview's camera smoothing), ScrubSpec and      *)
(* PreviewSpec (the preview effect while scrubbing and with its animation  *)
(* frames), DegenerateSpec (the interpolator on keyframes of equal time),  *)
(* RecorderSpec (screen-recorder.tsx) and PageSpec (app/record/page.tsx).  *)
(***************************************************************************)
EXTENDS Integers, Sequences, FiniteSets, TLC

VARIABLES
    manualKeyframes,     \* useState: keyframes placed by the user
    zoomRegions,         \* useState: zoom regions
    keyframes,           \* useState: the trajectory the player samples
    mouseEvents,         \* prop: the recorded event stream
    selectedKeyframeId,  \* useState
    selectedRegionId,    \* useState
    isAnalyzing,         \* useState
    lastOp,              \* history: the last request, "edit" for add, delete and drag
    sampleTime,          \* the time the interpolator was last asked for
    cameraTarget,        \* updateTransform: targetZoom, targetX, targetY
    framePose,           \* renderFrame: currentZoom, currentX, currentY
    video,               \* videoRef.current: currentTime, paused, ended
    isExporting,         \* useState
    isPlaying,           \* useState
    export,              \* one run of handleExport: its position, its closure, its encoder
    analysis,            \* one run of analyzeMotion: its position and its locals
    virtualCamera,       \* useRef: the smoothed camera of the preview
    smoothSteps,         \* history: preview frames since the target was set
    preview,             \* the preview effect: its dependencies, its animation frames
    recorder             \* ScreenRecorder: its refs, the clock, what it delivered

editorVars == <<manualKeyframes, zoomRegions, keyframes, mouseEvents,
                selectedKeyframeId, selectedRegionId, isAnalyzing, lastOp>>

sampleVars == <<sampleTime, cameraTarget, framePose>>

exportVars == <<video, isExporting, isPlaying, export>>

cameraVars == <<virtualCamera, smoothSteps, preview>>

restVars == <<exportVars, analysis, cameraVars, recorder>>

vars == <<editorVars, sampleVars, restVars>>

-----------------------------------------------------------------------------
(* Program constants *)

TRANSITION_DURATION == 50
HOLD_RELEASE == 80
DEBOUNCE_GAP == 5
FOLLOW_SAMPLE_GAP == 15
ZOOM_FOCUS == 250
ZOOM_DURATION == 300
DEFAULT_DURATION == 300
DEFAULT_REGION_ZOOM == 200
REGION_ZOOM_THRESHOLD == 120
MIN_REGION_DURATION == 50
LEGACY_MERGE_GAP == 10

(* Bounds of the model *)

MaxItems == 2
MaxRegions == 2
MaxSamples == 3
MaxSampleTick == 70

(* The loaded video: its duration, and the times a timeline click seeks to *)
VideoDuration == 200
SeekTimes == { 0, 100 }

Null == "null"

-----------------------------------------------------------------------------
(* Keyframes and the start keyframe *)

Keyframe(id, time, zoom, x, y, easing) ==
    [id |-> id, time |-> time, zoom |-> zoom, x |-> x, y |-> y, easing |-> easing]

StartKeyframe == Keyframe("start", 0, 100, 50, 50, "none")

-----------------------------------------------------------------------------
(* Array helpers: Array.prototype.sort (stable) and filter *)

RECURSIVE InsertByTime(_, _)
InsertByTime(sorted, kf) ==
    IF sorted = <<>> THEN <<kf>>
    ELSE IF sorted[Len(sorted)].time <= kf.time THEN Append(sorted, kf)
    ELSE Append(InsertByTime(SubSeq(sorted, 1, Len(sorted) - 1), kf),
                sorted[Len(sorted)])

RECURSIVE SortByTime(_)
SortByTime(kfs) ==
    IF kfs = <<>> THEN <<>>
    ELSE InsertByTime(SortByTime(SubSeq(kfs, 1, Len(kfs) - 1)), kfs[Len(kfs)])

IsSortedByTime(kfs) ==
    \A i \in 1..(Len(kfs) - 1) : kfs[i].time <= kfs[i + 1].time

-----------------------------------------------------------------------------
(* Compilation of regions and manual keyframes into the trajectory *)

RegionKeyframeId(region, part) == "region-" \o region.id \o "-" \o part

IsRegionMove(region, e) ==
    /\ e.type = "mousemove"
    /\ e.time > region.startTime
    /\ e.time < region.endTime

RECURSIVE FollowKeyframes(_, _, _, _)
FollowKeyframes(region, moves, i, lastSampleTime) ==
    IF i > Len(moves) THEN <<>>
    ELSE IF moves[i].time - lastSampleTime > FOLLOW_SAMPLE_GAP
         THEN <<Keyframe(RegionKeyframeId(region, "follow-" \o ToString(moves[i].time)),
                         moves[i].time, region.targetZoom, moves[i].x, moves[i].y,
                         "linear")>>
              \o FollowKeyframes(region, moves, i + 1, moves[i].time)
         ELSE FollowKeyframes(region, moves, i + 1, lastSampleTime)

(* RegionKeyframes with the release placed one transition after the end *)
RegionKeyframes_shortRelease(region, events) ==
    LET anchor == IF region.startTime > TRANSITION_DURATION
                  THEN <<Keyframe(RegionKeyframeId(region, "anchor"),
                                  region.startTime - TRANSITION_DURATION,
                                  100, 50, 50, "linear")>>
                  ELSE <<>>
        start == <<Keyframe(RegionKeyframeId(region, "start"), region.startTime,
                            region.targetZoom, region.initialX, region.initialY,
                            "ease-in-out")>>
        moves == SelectSeq(events, LAMBDA e : IsRegionMove(region, e))
        lastPos == IF Len(moves) > 0
                   THEN [x |-> moves[Len(moves)].x, y |-> moves[Len(moves)].y]
                   ELSE [x |-> region.initialX, y |-> region.initialY]
        followAndHold ==
            IF Len(events) > 0
            THEN FollowKeyframes(region, moves, 1, region.startTime)
                 \o <<Keyframe(RegionKeyframeId(region, "hold"), region.endTime,
                               region.targetZoom, lastPos.x, lastPos.y, "linear")>>
            ELSE <<Keyframe(RegionKeyframeId(region, "hold"), region.endTime,
                            region.targetZoom, region.initialX, region.initialY,
                            "linear")>>
        end == <<Keyframe(RegionKeyframeId(region, "end"),
                          region.endTime + TRANSITION_DURATION, 100, 50, 50,
                          "ease-in-out")>>
    IN  anchor \o start \o followAndHold \o end

RegionKeyframes(region, events) ==
    LET anchor == IF region.startTime > TRANSITION_DURATION
                  THEN <<Keyframe(RegionKeyframeId(region, "anchor"),
                                  region.startTime - TRANSITION_DURATION,
                                  100, 50, 50, "linear")>>
                  ELSE <<>>
        start == <<Keyframe(RegionKeyframeId(region, "start"), region.startTime,
                            region.targetZoom, region.initialX, region.initialY,
                            "ease-in-out")>>
        moves == SelectSeq(events, LAMBDA e : IsRegionMove(region, e))
        lastPos == IF Len(moves) > 0
                   THEN [x |-> moves[Len(moves)].x, y |-> moves[Len(moves)].y]
                   ELSE [x |-> region.initialX, y |-> region.initialY]
        followAndHold ==
            IF Len(events) > 0
            THEN FollowKeyframes(region, moves, 1, region.startTime)
                 \o <<Keyframe(RegionKeyframeId(region, "hold"), region.endTime,
                               region.targetZoom, lastPos.x, lastPos.y, "linear")>>
            ELSE <<Keyframe(RegionKeyframeId(region, "hold"), region.endTime,
                            region.targetZoom, region.initialX, region.initialY,
                            "linear")>>
        end == <<Keyframe(RegionKeyframeId(region, "end"),
                          region.endTime + HOLD_RELEASE, 100, 50, 50, "ease-in-out")>>
    IN  anchor \o start \o followAndHold \o end

RECURSIVE AllRegionKeyframes(_, _, _)
AllRegionKeyframes(regions, events, i) ==
    IF i > Len(regions) THEN <<>>
    ELSE RegionKeyframes(regions[i], events) \o AllRegionKeyframes(regions, events, i + 1)

(* DebounceKeeps with the comparison made inclusive *)
DebounceKeeps_inclusive(arr, i) ==
    IF i = 1 THEN TRUE ELSE arr[i].time - arr[i - 1].time >= DEBOUNCE_GAP

DebounceKeeps(arr, i) ==
    IF i = 1 THEN TRUE ELSE arr[i].time - arr[i - 1].time > DEBOUNCE_GAP

(* filter((kf, i, arr) => ...) from position i on *)
RECURSIVE DebounceFrom(_, _)
DebounceFrom(arr, i) ==
    IF i > Len(arr) THEN <<>>
    ELSE (IF DebounceKeeps(arr, i) THEN <<arr[i]>> ELSE <<>>) \o DebounceFrom(arr, i + 1)

Debounce(arr) == DebounceFrom(arr, 1)

DeriveKeyframes(manual, regions, events) ==
    LET derivedKeyframes == manual \o AllRegionKeyframes(regions, events, 1)
    IN  Debounce(SortByTime(derivedKeyframes))

-----------------------------------------------------------------------------
(* The interpolator.  progress and the eased progress are exact fractions   *)
(* [n, d]; a pose is the numerators zoom, x, y over the denominator den.    *)

RECURSIVE GCD(_, _)
GCD(a, b) == IF b = 0 THEN a ELSE GCD(b, a % b)

(* (time - k1.time) / (k2.time - k1.time), in lowest terms *)
Progress(time, k1, k2) ==
    LET n == time - k1.time
        d == k2.time - k1.time
        g == GCD(d, n)
    IN  [n |-> n \div g, d |-> d \div g]

(* easeInOutCubic without the second branch: 4 * t * t * t throughout *)
easeInOutCubic_noBranch(t) ==
    [n |-> 4 * t.n * t.n * t.n, d |-> t.d * t.d * t.d]

(* easeInOutCubic with 2 * t - 1 written for 2 * t - 2 in the second branch *)
easeInOutCubic_shifted(t) ==
    IF 2 * t.n < t.d
    THEN [n |-> 4 * t.n * t.n * t.n, d |-> t.d * t.d * t.d]
    ELSE [n |-> (t.n - t.d) * (2 * t.n - t.d) * (2 * t.n - t.d)
                + t.d * t.d * t.d,
          d |-> t.d * t.d * t.d]

(* t < .5 ? 4 * t * t * t : (t - 1) * (2 * t - 2) * (2 * t - 2) + 1 *)
easeInOutCubic(t) ==
    IF 2 * t.n < t.d
    THEN [n |-> 4 * t.n * t.n * t.n, d |-> t.d * t.d * t.d]
    ELSE [n |-> (t.n - t.d) * (2 * t.n - 2 * t.d) * (2 * t.n - 2 * t.d)
                + t.d * t.d * t.d,
          d |-> t.d * t.d * t.d]

(* t < .5 ? 2 * t * t : -1 + (4 - 2 * t) * t *)
ease(t) ==
    IF 2 * t.n < t.d
    THEN [n |-> 2 * t.n * t.n, d |-> t.d * t.d]
    ELSE [n |-> (4 * t.d - 2 * t.n) * t.n - t.d * t.d, d |-> t.d * t.d]

Pose(zoom, x, y, den) == [zoom |-> zoom, x |-> x, y |-> y, den |-> den]

PoseOf(k) == Pose(k.zoom, k.x, k.y, 1)

(* k1.v + (k2.v - k1.v) * easedProgress, for v = zoom, x, y *)
Lerp2(k1, k2, easedProgress) ==
    Pose(k1.zoom * easedProgress.d + (k2.zoom - k1.zoom) * easedProgress.n,
         k1.x * easedProgress.d + (k2.x - k1.x) * easedProgress.n,
         k1.y * easedProgress.d + (k2.y - k1.y) * easedProgress.n,
         easedProgress.d)

(* FindIndexAfter that also takes a keyframe at the asked time *)
FindIndexAfter_inclusive(kfs, time) ==
    IF \E i \in 1..Len(kfs) : kfs[i].time >= time
    THEN CHOOSE i \in 1..Len(kfs) :
            /\ kfs[i].time >= time
            /\ \A j \in 1..(i - 1) : kfs[j].time < time
    ELSE 0

(* FindIndexAfter that answers the last position when no keyframe is later *)
FindIndexAfter_clamped(kfs, time) ==
    IF \E i \in 1..Len(kfs) : kfs[i].time > time
    THEN CHOOSE i \in 1..Len(kfs) :
            /\ kfs[i].time > time
            /\ \A j \in 1..(i - 1) : kfs[j].time <= time
    ELSE Len(kfs)

(* findIndex(k => k.time > time): the first such position, 0 when findIndex *)
(* returns -1 (positions here count from 1).                               *)
FindIndexAfter(kfs, time) ==
    IF \E i \in 1..Len(kfs) : kfs[i].time > time
    THEN CHOOSE i \in 1..Len(kfs) :
            /\ kfs[i].time > time
            /\ \A j \in 1..(i - 1) : kfs[j].time <= time
    ELSE 0

(* updateTransform, step 3: the camera target at the playhead *)
CameraTarget(kfs, time) ==
    LET sortedKeyframes == SortByTime(kfs)
        nextKeyframeIndex == FindIndexAfter(sortedKeyframes, time)
    IN  IF nextKeyframeIndex = 1 THEN PoseOf(sortedKeyframes[1])
        ELSE IF nextKeyframeIndex = 0 THEN PoseOf(sortedKeyframes[Len(sortedKeyframes)])
        ELSE LET k1 == sortedKeyframes[nextKeyframeIndex - 1]
                 k2 == sortedKeyframes[nextKeyframeIndex]
             IN  Lerp2(k1, k2, easeInOutCubic(Progress(time, k1, k2)))

(* handleExport.renderFrame, step 1: the pose of the exported frame *)
RenderFramePose(kfs, time) ==
    LET sortedKeyframes == SortByTime(kfs)
        nextKeyframeIndex == FindIndexAfter(sortedKeyframes, time)
    IN  IF nextKeyframeIndex = 1 THEN PoseOf(sortedKeyframes[1])
        ELSE IF nextKeyframeIndex = 0 THEN PoseOf(sortedKeyframes[Len(sortedKeyframes)])
        ELSE LET k1 == sortedKeyframes[nextKeyframeIndex - 1]
                 k2 == sortedKeyframes[nextKeyframeIndex]
             IN  Lerp2(k1, k2, ease(Progress(time, k1, k2)))

SamePose(p, q) ==
    /\ p.zoom * q.den = q.zoom * p.den
    /\ p.x * q.den = q.x * p.den
    /\ p.y * q.den = q.y * p.den

-----------------------------------------------------------------------------
(* Inputs of the region-based editor *)

MouseEvent(type, time, x, y) == [type |-> type, time |-> time, x |-> x, y |-> y]

ClickStream ==
    << MouseEvent("mousemove", 20, 10, 10),
       MouseEvent("mousedown", 52, 40, 60),
       MouseEvent("mousemove", 60, 42, 60),
       MouseEvent("mousemove", 70, 44, 62),
       MouseEvent("mouseup", 95, 44, 62),
       MouseEvent("mousemove", 150, 60, 40),
       MouseEvent("mousedown", 200, 70, 30),
       MouseEvent("keydown", 300, 70, 30) >>

MoveOnlyStream ==
    << MouseEvent("mousemove", 5, 50, 50),
       MouseEvent("mousemove", 100, 20, 80),
       MouseEvent("mouseup", 120, 20, 80) >>

EditorStreams == { <<>>, ClickStream, MoveOnlyStream }

(* What a handler reads from the control surface: the playhead and the sliders *)
Surface(currentTime, zoomLevel, panX, panY) ==
    [currentTime |-> currentTime, zoomLevel |-> zoomLevel, panX |-> panX, panY |-> panY]

ControlSurface == { Surface(4, 100, 50, 50), Surface(200, 300, 30, 70) }
ResizeDeltas == {-400}
StageDrags == { <<70, -70>> }

Ids(items) == { items[i].id : i \in 1..Len(items) }

(* Array.prototype.find by id: the first item with that id *)
Find(items, id) ==
    items[CHOOSE i \in 1..Len(items) :
            /\ items[i].id = id
            /\ \A j \in 1..(i - 1) : items[j].id # id]

Max(a, b) == IF a >= b THEN a ELSE b
Min(a, b) == IF a <= b THEN a ELSE b

(* The <video> element before anything plays it *)
VideoIdle == [currentTime |-> 0, paused |-> TRUE, ended |-> FALSE]

(* No export has run *)
ExportIdle ==
    [pc |-> "idle", keyframes |-> <<>>, due |-> FALSE, frames |-> <<>>, finalized |-> 0]

(* No analysis has run *)
AnalysisIdle == [pc |-> "idle", originalTime |-> 0, index |-> 0, st |-> <<>>, diffs |-> <<>>]

(* The virtual camera holds numbers finer than a keyframe does: x and y in  *)
(* steps of 0.0001 percent, zoom in steps of 0.00001                        *)
POS_SCALE == 10000
ZOOM_SCALE == 1000

(* useRef({ x: 50, y: 50, zoom: 1 }) *)
CameraRest == [x |-> 50 * POS_SCALE, y |-> 50 * POS_SCALE, zoom |-> 100 * ZOOM_SCALE]

(* The recorder before a recording.  state and stopQueued are the          *)
(* MediaRecorder of mediaRecorderRef (its state, whether its stop event is  *)
(* queued); orphan is a MediaRecorder that was still active when            *)
(* mediaRecorderRef was given another one; pending counts the streams       *)
(* requested and not yet obtained; listening says whether the listener of   *)
(* removeListenerRef is registered, orphanListeners counts the registered   *)
(* listeners whose remover was overwritten; now is Date.now(); events is    *)
(* the array of eventsRef; started and deliveries count the calls of        *)
(* handleStreamSuccess and of onRecordingComplete; delivered is what        *)
(* onRecordingComplete got last, shared while its event list is the array   *)
(* of eventsRef                                                            *)
RecorderIdle ==
    [state |-> "inactive", stopQueued |-> FALSE,
     orphan |-> [state |-> "inactive", stopQueued |-> FALSE],
     pending |-> 0, isRecording |-> FALSE,
     listening |-> FALSE, orphanListeners |-> 0, now |-> 0,
     startTime |-> 0, events |-> <<>>, started |-> 0, deliveries |-> 0,
     delivered |-> [made |-> FALSE, events |-> <<>>, startedAt |-> 0, stoppedAt |-> 0,
                    shared |-> FALSE]]

(* The dependency array of the preview effect, line 768 *)
Deps ==
    [isPlaying |-> isPlaying, keyframes |-> keyframes, currentTime |-> sampleTime,
     mouseEvents |-> mouseEvents]

(* The preview effect after it ran for the dependencies deps: mounted, no   *)
(* animation frame requested (animationFrameId unset)                       *)
PreviewSettled(deps) ==
    [mounted |-> TRUE, deps |-> deps, animationFrameId |-> 0, scheduled |-> {}]

RestIdle ==
    /\ video = VideoIdle
    /\ isExporting = FALSE
    /\ isPlaying = FALSE
    /\ export = ExportIdle
    /\ analysis = AnalysisIdle
    /\ virtualCamera = CameraRest
    /\ smoothSteps = 0
    /\ preview = PreviewSettled(Deps)
    /\ recorder = RecorderIdle

Init ==
    /\ manualKeyframes = <<StartKeyframe>>
    /\ zoomRegions = <<>>
    /\ keyframes = <<StartKeyframe>>
    /\ mouseEvents \in EditorStreams
    /\ selectedKeyframeId = Null
    /\ selectedRegionId = Null
    /\ isAnalyzing = FALSE
    /\ lastOp = "init"
    /\ sampleTime = 0
    /\ cameraTarget = PoseOf(StartKeyframe)
    /\ framePose = PoseOf(StartKeyframe)
    /\ RestIdle

(* Date.now().toString(): the clock only advances, so the id is one that no *)
(* item of the list it is added to holds; the model takes the least such.  *)
DateNowId(items) ==
    ToString(CHOOSE n \in 1..(Len(items) + 1) :
                /\ ToString(n) \notin Ids(items)
                /\ \A m \in 1..(n - 1) : ToString(m) \in Ids(items))

RoomForItem == Len(manualKeyframes) - 1 + Len(zoomRegions) < MaxItems

-----------------------------------------------------------------------------
(* Handlers of the region-based editor.  A handler that sets manualKeyframes *)
(* or zoomRegions re-runs the derive effect (lines 556-652), which sets    *)
(* keyframes from the new values.                                          *)

addKeyframe(currentTime, zoomLevel, panX, panY) ==
    /\ RoomForItem
    /\ LET newKeyframe == Keyframe(DateNowId(manualKeyframes), currentTime, zoomLevel, panX, panY, "none")
           manual == Append(manualKeyframes, newKeyframe)
       IN  /\ manualKeyframes' = manual
           /\ keyframes' = DeriveKeyframes(manual, zoomRegions, mouseEvents)
           /\ selectedKeyframeId' = newKeyframe.id
           /\ lastOp' = "edit"
    /\ UNCHANGED <<zoomRegions, mouseEvents, selectedRegionId, isAnalyzing>>
    /\ UNCHANGED <<sampleVars, restVars>>

deleteKeyframe(id) ==
    /\ IF id = "start"
       THEN /\ lastOp' = "deleteKeyframe"
            /\ UNCHANGED <<manualKeyframes, zoomRegions, keyframes, mouseEvents,
                           selectedKeyframeId, selectedRegionId, isAnalyzing>>
       ELSE LET manual == SelectSeq(manualKeyframes, LAMBDA k : k.id # id)
            IN  /\ manualKeyframes' = manual
                /\ keyframes' = DeriveKeyframes(manual, zoomRegions, mouseEvents)
                /\ selectedKeyframeId' = Null
                /\ lastOp' = "edit"
                /\ UNCHANGED <<zoomRegions, mouseEvents, selectedRegionId, isAnalyzing>>
    /\ UNCHANGED <<sampleVars, restVars>>

deleteRegion(id) ==
    /\ LET regions == SelectSeq(zoomRegions, LAMBDA r : r.id # id)
       IN  /\ zoomRegions' = regions
           /\ keyframes' = DeriveKeyframes(manualKeyframes, regions, mouseEvents)
           /\ selectedRegionId' = Null
           /\ lastOp' = "edit"
           /\ UNCHANGED <<manualKeyframes, mouseEvents, selectedKeyframeId, isAnalyzing>>
    /\ UNCHANGED <<sampleVars, restVars>>

ZoomRegion(id, startTime, endTime, targetZoom, initialX, initialY) ==
    [id |-> id, startTime |-> startTime, endTime |-> endTime,
     targetZoom |-> targetZoom, initialX |-> initialX, initialY |-> initialY]

(* RegionsFromClicks that takes button releases for clicks as well *)
RegionsFromClicks_anyButton(events) ==
    LET clicks == SelectSeq(events, LAMBDA e : e.type \in {"mousedown", "mouseup"})
    IN  [ index \in 1..Len(clicks) |->
            ZoomRegion("auto-region-" \o ToString(index - 1),
                       clicks[index].time,
                       clicks[index].time + ZOOM_DURATION,
                       ZOOM_FOCUS,
                       clicks[index].x,
                       clicks[index].y) ]

RegionsFromClicks(events) ==
    LET clicks == SelectSeq(events, LAMBDA e : e.type = "mousedown")
    IN  [ index \in 1..Len(clicks) |->
            ZoomRegion("auto-region-" \o ToString(index - 1),
                       clicks[index].time,
                       clicks[index].time + ZOOM_DURATION,
                       ZOOM_FOCUS,
                       clicks[index].x,
                       clicks[index].y) ]

(* The fallback is an empty async function: it changes no state. *)
analyzeMotionFallback ==
    UNCHANGED <<manualKeyframes, zoomRegions, keyframes, mouseEvents,
                selectedKeyframeId, selectedRegionId, isAnalyzing>>

(* generateKeyframesFromEvents that adds the new regions to what exists *)
generateKeyframesFromEvents_additive ==
    /\ IF Len(mouseEvents) = 0
       THEN /\ analyzeMotionFallback
            /\ lastOp' = "analyzeMotionFallback"
       ELSE LET newRegions == zoomRegions \o RegionsFromClicks(mouseEvents)
            IN  /\ zoomRegions' = newRegions
                /\ keyframes' = DeriveKeyframes(manualKeyframes, newRegions, mouseEvents)
                /\ isAnalyzing' = FALSE
                /\ lastOp' = "generateKeyframesFromEvents"
                /\ UNCHANGED <<manualKeyframes, mouseEvents, selectedKeyframeId,
                               selectedRegionId>>
    /\ UNCHANGED <<sampleVars, restVars>>

generateKeyframesFromEvents ==
    /\ IF Len(mouseEvents) = 0
       THEN /\ analyzeMotionFallback
            /\ lastOp' = "analyzeMotionFallback"
       ELSE LET newRegions == RegionsFromClicks(mouseEvents)
                manual == <<StartKeyframe>>
            IN  /\ zoomRegions' = newRegions
                /\ manualKeyframes' = manual
                /\ keyframes' = DeriveKeyframes(manual, newRegions, mouseEvents)
                /\ isAnalyzing' = FALSE
                /\ lastOp' = "generateKeyframesFromEvents"
                /\ UNCHANGED <<mouseEvents, selectedKeyframeId, selectedRegionId>>
    /\ UNCHANGED <<sampleVars, restVars>>

addManualRegion(currentTime, zoomLevel, panX, panY) ==
    /\ RoomForItem
    /\ LET regionId == DateNowId(zoomRegions)
           newRegion == ZoomRegion(regionId, currentTime, currentTime + DEFAULT_DURATION,
                                   IF zoomLevel > REGION_ZOOM_THRESHOLD
                                   THEN zoomLevel ELSE DEFAULT_REGION_ZOOM,
                                   panX, panY)
           regions == Append(zoomRegions, newRegion)
       IN  /\ zoomRegions' = regions
           /\ keyframes' = DeriveKeyframes(manualKeyframes, regions, mouseEvents)
           /\ selectedRegionId' = regionId
           /\ lastOp' = "edit"
    /\ UNCHANGED <<manualKeyframes, mouseEvents, selectedKeyframeId, isAnalyzing>>
    /\ UNCHANGED <<sampleVars, restVars>>

(* handleDragStart without the minimum duration of the resize *)
handleDragStart_noMinimum(regionId, deltaSeconds) ==
    /\ regionId \in Ids(zoomRegions)
    /\ LET region == Find(zoomRegions, regionId)
           startDuration == region.endTime - region.startTime
           newDuration == startDuration + deltaSeconds
           regions == [ i \in 1..Len(zoomRegions) |->
                          IF zoomRegions[i].id = regionId
                          THEN [zoomRegions[i] EXCEPT
                                  !.endTime = zoomRegions[i].startTime + newDuration]
                          ELSE zoomRegions[i] ]
       IN  /\ zoomRegions' = regions
           /\ keyframes' = DeriveKeyframes(manualKeyframes, regions, mouseEvents)
           /\ lastOp' = "edit"
    /\ selectedRegionId' = regionId
    /\ UNCHANGED <<manualKeyframes, mouseEvents, selectedKeyframeId, isAnalyzing>>
    /\ UNCHANGED <<sampleVars, restVars>>

(* Resize handle: handleDragStart followed by one mousemove of the drag. *)
handleDragStart(regionId, deltaSeconds) ==
    /\ regionId \in Ids(zoomRegions)
    /\ LET region == Find(zoomRegions, regionId)
           startDuration == region.endTime - region.startTime
           newDuration == Max(MIN_REGION_DURATION, startDuration + deltaSeconds)
           regions == [ i \in 1..Len(zoomRegions) |->
                          IF zoomRegions[i].id = regionId
                          THEN [zoomRegions[i] EXCEPT
                                  !.endTime = zoomRegions[i].startTime + newDuration]
                          ELSE zoomRegions[i] ]
       IN  /\ zoomRegions' = regions
           /\ keyframes' = DeriveKeyframes(manualKeyframes, regions, mouseEvents)
           /\ lastOp' = "edit"
    /\ selectedRegionId' = regionId
    /\ UNCHANGED <<manualKeyframes, mouseEvents, selectedKeyframeId, isAnalyzing>>
    /\ UNCHANGED <<sampleVars, restVars>>

(* Stage drag: handleStageMouseDown followed by one mousemove of the drag. *)
handleStageMouseDown(panX, panY, deltaX, deltaY) ==
    /\ LET newPanX == Max(0, Min(100, panX - deltaX))
           newPanY == Max(0, Min(100, panY - deltaY))
           regions == [ i \in 1..Len(zoomRegions) |->
                          IF zoomRegions[i].id = selectedRegionId
                          THEN [zoomRegions[i] EXCEPT !.initialX = newPanX,
                                                      !.initialY = newPanY]
                          ELSE zoomRegions[i] ]
       IN  /\ selectedRegionId # Null
           /\ zoomRegions' = regions
           /\ keyframes' = DeriveKeyframes(manualKeyframes, regions, mouseEvents)
           /\ lastOp' = "edit"
           /\ UNCHANGED <<manualKeyframes, mouseEvents, selectedKeyframeId,
                          selectedRegionId, isAnalyzing>>
    /\ UNCHANGED <<sampleVars, restVars>>

regionClick(i) ==
    /\ i \in 1..Len(zoomRegions)
    /\ selectedRegionId' = zoomRegions[i].id
    /\ selectedKeyframeId' = Null
    /\ UNCHANGED <<manualKeyframes, zoomRegions, keyframes, mouseEvents,
                   isAnalyzing, lastOp>>
    /\ UNCHANGED <<sampleVars, restVars>>

keyframeClick(i) ==
    /\ i \in 1..Len(manualKeyframes)
    /\ selectedKeyframeId' = manualKeyframes[i].id
    /\ selectedRegionId' = Null
    /\ UNCHANGED <<manualKeyframes, zoomRegions, keyframes, mouseEvents,
                   isAnalyzing, lastOp>>
    /\ UNCHANGED <<sampleVars, restVars>>

(* deleteKeyframe and deleteRegion take the id as an argument: they are     *)
(* called with every id of the list they filter.                           *)
Next ==
    \/ \E ui \in ControlSurface :
          addKeyframe(ui.currentTime, ui.zoomLevel, ui.panX, ui.panY)
    \/ \E id \in Ids(manualKeyframes) : deleteKeyframe(id)
    \/ \E id \in (Ids(zoomRegions) \cup {selectedRegionId}) \ {Null} : deleteRegion(id)
    \/ generateKeyframesFromEvents
    \/ \E ui \in ControlSurface :
          addManualRegion(ui.currentTime, ui.zoomLevel, ui.panX, ui.panY)
    \/ \E id \in Ids(zoomRegions), deltaSeconds \in ResizeDeltas :
          handleDragStart(id, deltaSeconds)
    \/ \E ui \in ControlSurface, drag \in StageDrags :
          handleStageMouseDown(ui.panX, ui.panY, drag[1], drag[2])
    \/ \E i \in 1..Len(zoomRegions) : regionClick(i)
    \/ \E i \in 1..Len(manualKeyframes) : keyframeClick(i)

Spec == Init /\ [][Next]_vars

-----------------------------------------------------------------------------
(* The interpolators as functions: the trajectory is drawn from a set of    *)
(* time-sorted keyframe lists and both interpolators are asked for a time.  *)

CandidateKeyframes ==
    << StartKeyframe,
       Keyframe("a", 10, 200, 80, 20, "ease-in-out"),
       Keyframe("b", 100, 120, 25, 75, "linear"),
       Keyframe("c", 200, 200, 80, 20, "ease-in-out"),
       Keyframe("d", 300, 100, 50, 50, "ease-in-out") >>

(* The keyframes of arr at the positions in S, in the order of arr *)
RECURSIVE Pick(_, _, _)
Pick(arr, S, i) ==
    IF i > Len(arr) THEN <<>>
    ELSE (IF i \in S THEN <<arr[i]>> ELSE <<>>) \o Pick(arr, S, i + 1)

Trajectories ==
    { Pick(CandidateKeyframes, S, 1) :
        S \in (SUBSET (1..Len(CandidateKeyframes))) \ {{}} }

SampleTimes == { 5 * i : i \in 0..MaxSampleTick }

SampleInit ==
    /\ manualKeyframes = <<StartKeyframe>>
    /\ zoomRegions = <<>>
    /\ keyframes \in Trajectories
    /\ mouseEvents = <<>>
    /\ selectedKeyframeId = Null
    /\ selectedRegionId = Null
    /\ isAnalyzing = FALSE
    /\ lastOp = "init"
    /\ sampleTime = 0
    /\ cameraTarget = PoseOf(StartKeyframe)
    /\ framePose = PoseOf(StartKeyframe)
    /\ RestIdle

sample(time) ==
    /\ sampleTime' = time
    /\ cameraTarget' = CameraTarget(keyframes, time)
    /\ framePose' = RenderFramePose(keyframes, time)
    /\ lastOp' = "sample"
    /\ UNCHANGED <<manualKeyframes, zoomRegions, keyframes, mouseEvents,
                   selectedKeyframeId, selectedRegionId, isAnalyzing>>
    /\ UNCHANGED restVars

SampleNext == \E time \in SampleTimes : sample(time)

SampleSpec == SampleInit /\ [][SampleNext]_vars

-----------------------------------------------------------------------------
(* The interpolators on trajectories with zero-length segments: time-sorted *)
(* lists in which two keyframes share a time.                               *)

DegenerateKeyframes ==
    << StartKeyframe,
       Keyframe("a", 100, 200, 80, 20, "ease-in-out"),
       Keyframe("b", 100, 120, 25, 75, "linear"),
       Keyframe("c", 200, 300, 10, 90, "ease-in-out"),
       Keyframe("d", 200, 100, 50, 50, "ease-in-out") >>

DegenerateTrajectories ==
    { Pick(DegenerateKeyframes, S, 1) :
        S \in (SUBSET (1..Len(DegenerateKeyframes))) \ {{}} }

DegenerateInit ==
    /\ manualKeyframes = <<StartKeyframe>>
    /\ zoomRegions = <<>>
    /\ keyframes \in DegenerateTrajectories
    /\ mouseEvents = <<>>
    /\ selectedKeyframeId = Null
    /\ selectedRegionId = Null
    /\ isAnalyzing = FALSE
    /\ lastOp = "init"
    /\ sampleTime = 0
    /\ cameraTarget = PoseOf(StartKeyframe)
    /\ framePose = PoseOf(StartKeyframe)
    /\ RestIdle

DegenerateSpec == DegenerateInit /\ [][SampleNext]_vars

-----------------------------------------------------------------------------
(* The derive effect as a function: manual keyframes, regions and events    *)
(* are drawn from sets of values the handlers can produce, and the effect   *)
(* (lines 556-652) runs on them.                                            *)

ManualInputs ==
    { <<StartKeyframe>>,
      <<StartKeyframe, Keyframe("1", 4, 300, 30, 70, "none")>>,
      <<StartKeyframe, Keyframe("1", 5, 300, 30, 70, "none")>>,
      <<StartKeyframe, Keyframe("1", 200, 300, 30, 70, "none")>>,
      <<StartKeyframe, Keyframe("1", 200, 300, 30, 70, "none"),
                       Keyframe("2", 4, 100, 50, 50, "none")>>,
      <<StartKeyframe, Keyframe("1", 0, 300, 30, 70, "none"),
                       Keyframe("2", 6, 100, 50, 50, "none")>> }

CandidateRegions ==
    { ZoomRegion("1", 52, 352, 200, 30, 70),
      ZoomRegion("2", 58, 108, 300, 50, 50),
      ZoomRegion("3", 500, 800, 200, 30, 70),
      ZoomRegion("auto-region-0", 4, 304, ZOOM_FOCUS, 40, 60),
      ZoomRegion("auto-region-1", 200, 500, ZOOM_FOCUS, 70, 30) }

RegionInputs ==
    { regions \in UNION { [1..n -> CandidateRegions] : n \in 0..MaxRegions } :
        \A i, j \in 1..Len(regions) : i # j => regions[i] # regions[j] }

EventStreams == { <<>>, ClickStream, MoveOnlyStream }

CompileInit ==
    /\ manualKeyframes \in ManualInputs
    /\ zoomRegions \in RegionInputs
    /\ keyframes = <<StartKeyframe>>
    /\ mouseEvents \in EventStreams
    /\ selectedKeyframeId = Null
    /\ selectedRegionId = Null
    /\ isAnalyzing = FALSE
    /\ lastOp = "init"
    /\ sampleTime = 0
    /\ cameraTarget = PoseOf(StartKeyframe)
    /\ framePose = PoseOf(StartKeyframe)
    /\ RestIdle

deriveEffect ==
    /\ keyframes' = DeriveKeyframes(manualKeyframes, zoomRegions, mouseEvents)
    /\ lastOp' = "derive"
    /\ UNCHANGED <<manualKeyframes, zoomRegions, mouseEvents, selectedKeyframeId,
                   selectedRegionId, isAnalyzing>>
    /\ UNCHANGED <<sampleVars, restVars>>

CompileNext == deriveEffect

CompileSpec == CompileInit /\ [][CompileNext]_vars

-----------------------------------------------------------------------------
(* The earlier editor (lines 23-313): its keyframe list is edited directly  *)
(* by addKeyframe and deleteKeyframe and replaced by analyzeMotion.         *)

Abs(a) == IF a < 0 THEN -a ELSE a

legacyAddKeyframe(currentTime, zoomLevel, panX, panY) ==
    /\ Len(keyframes) <= MaxItems
    /\ LET newKeyframe == Keyframe(DateNowId(keyframes), currentTime, zoomLevel,
                                   panX, panY, "none")
           filtered == SelectSeq(keyframes,
                           LAMBDA k : Abs(k.time - newKeyframe.time) > LEGACY_MERGE_GAP)
           updated == SortByTime(Append(filtered, newKeyframe))
       IN  /\ keyframes' = updated
           /\ selectedKeyframeId' = newKeyframe.id
    /\ lastOp' = "edit"
    /\ UNCHANGED <<manualKeyframes, zoomRegions, mouseEvents, selectedRegionId,
                   isAnalyzing>>
    /\ UNCHANGED <<sampleVars, restVars>>

legacyDeleteKeyframe(id) ==
    /\ IF id = "start"
       THEN /\ lastOp' = "deleteKeyframe"
            /\ UNCHANGED <<keyframes, selectedKeyframeId>>
       ELSE /\ keyframes' = SelectSeq(keyframes, LAMBDA k : k.id # id)
            /\ selectedKeyframeId' = IF selectedKeyframeId = id THEN Null
                                     ELSE selectedKeyframeId
            /\ lastOp' = "edit"
    /\ UNCHANGED <<manualKeyframes, zoomRegions, mouseEvents, selectedRegionId,
                   isAnalyzing>>
    /\ UNCHANGED <<sampleVars, restVars>>

legacyKeyframeClick(i) ==
    /\ i \in 1..Len(keyframes)
    /\ selectedKeyframeId' = keyframes[i].id
    /\ video' = [video EXCEPT !.currentTime = keyframes[i].time]
    /\ UNCHANGED <<manualKeyframes, zoomRegions, keyframes, mouseEvents,
                   selectedRegionId, isAnalyzing, lastOp>>
    /\ UNCHANGED <<sampleVars, isExporting, isPlaying, export, analysis, cameraVars,
                   recorder>>

(* What the pixel loop (lines 200-226) measures between two sampled frames: *)
(* the number of changed pixels, the bounding box of the change as a        *)
(* percentage of the frame area, and the centre of the box in percent.      *)
FrameDiff(diffCount, areaPercent, centerX, centerY) ==
    [diffCount |-> diffCount, areaPercent |-> areaPercent,
     centerX |-> centerX, centerY |-> centerY]

ANALYSIS_INTERVAL == 50
MIN_CHANGED_PIXELS == 5
SMALL_AREA_PERCENT == 15
FOLLOW_ZOOM == 120
DWELL_ZOOM == 200
DWELL_FRAMES == 2

AnalysisStart ==
    [isZoomed |-> FALSE, stationaryFrames |-> 0,
     lastCursorPos |-> [x |-> 50, y |-> 50],
     generatedKeyframes |-> <<StartKeyframe>>]

(* One pass of the loop body for a sample at time t that has a predecessor *)
(* (the id `move-${t}` is written with t in the units of the model)         *)
AnalyzeSample(st, t, diff) ==
    LET isSmallMovement == /\ diff.diffCount > MIN_CHANGED_PIXELS
                           /\ diff.areaPercent < SMALL_AREA_PERCENT
    IN  IF isSmallMovement
        THEN [isZoomed |-> FALSE,
              stationaryFrames |-> 0,
              lastCursorPos |-> [x |-> diff.centerX, y |-> diff.centerY],
              generatedKeyframes |->
                  Append(st.generatedKeyframes,
                         Keyframe((IF st.isZoomed THEN "move-" ELSE "track-")
                                      \o ToString(t),
                                  t, FOLLOW_ZOOM, diff.centerX, diff.centerY, "linear"))]
        ELSE IF diff.diffCount <= MIN_CHANGED_PIXELS
        THEN IF st.stationaryFrames + 1 = DWELL_FRAMES /\ ~st.isZoomed
             THEN [st EXCEPT
                     !.stationaryFrames = st.stationaryFrames + 1,
                     !.isZoomed = TRUE,
                     !.generatedKeyframes =
                         Append(st.generatedKeyframes,
                                Keyframe("zoom-" \o ToString(t), t, DWELL_ZOOM,
                                         st.lastCursorPos.x, st.lastCursorPos.y,
                                         "ease-in-out"))]
             ELSE [st EXCEPT !.stationaryFrames = st.stationaryFrames + 1]
        ELSE IF st.isZoomed
             THEN [st EXCEPT
                     !.isZoomed = FALSE,
                     !.generatedKeyframes =
                         Append(st.generatedKeyframes,
                                Keyframe("scroll-" \o ToString(t), t, 100, 50, 50,
                                         "ease-in-out"))]
             ELSE st

(* The loop over t = 0, 0.5, 1.0, ...: the sample at t = 0 has no          *)
(* predecessor; diffs[i] is what the sample at t = 0.5 * i measures.       *)
RECURSIVE AnalyzeLoop(_, _, _)
AnalyzeLoop(st, diffs, i) ==
    IF i > Len(diffs) THEN st
    ELSE AnalyzeLoop(AnalyzeSample(st, ANALYSIS_INTERVAL * i, diffs[i]), diffs, i + 1)

analyzeMotion(diffs) ==
    /\ ~isAnalyzing
    /\ keyframes' = SortByTime(AnalyzeLoop(AnalysisStart, diffs, 1).generatedKeyframes)
    /\ isAnalyzing' = FALSE
    /\ lastOp' = "analyzeMotion"
    /\ UNCHANGED <<manualKeyframes, zoomRegions, mouseEvents, selectedKeyframeId,
                   selectedRegionId>>
    /\ UNCHANGED <<sampleVars, restVars>>

(* analyzeMotion as it runs, one await at a time.  analysis.pc is         *)
(*   "idle"     no run yet                                                  *)
(*   "aborted"  returned at line 170 (no 2D context)                        *)
(*   "running"  in the loop; index counts the samples taken                 *)
(*   "failed"   left through catch and finally                              *)
(*   "done"     left through setKeyframes and finally                       *)
(* analysis.diffs records what each sample after the first measured.        *)
analyzeMotionStart(hasContext) ==
    /\ ~isAnalyzing
    /\ isAnalyzing' = TRUE
    /\ analysis' = IF hasContext
                   THEN [pc |-> "running", originalTime |-> video.currentTime,
                         index |-> 0, st |-> AnalysisStart, diffs |-> <<>>]
                   ELSE [analysis EXCEPT !.pc = "aborted"]
    /\ UNCHANGED <<manualKeyframes, zoomRegions, keyframes, mouseEvents,
                   selectedKeyframeId, selectedRegionId, lastOp>>
    /\ UNCHANGED <<sampleVars, exportVars, cameraVars, recorder>>

(* lines 191-302: seek to t, wait, draw, compare with the previous frame *)
analyzeMotionSample(diff) ==
    /\ analysis.pc = "running"
    /\ ANALYSIS_INTERVAL * analysis.index < VideoDuration
    /\ LET t == ANALYSIS_INTERVAL * analysis.index
       IN  /\ video' = [video EXCEPT !.currentTime = t]
           /\ analysis' = [analysis EXCEPT
                             !.index = analysis.index + 1,
                             !.st = IF analysis.index = 0 THEN analysis.st
                                    ELSE AnalyzeSample(analysis.st, t, diff),
                             !.diffs = IF analysis.index = 0 THEN analysis.diffs
                                       ELSE Append(analysis.diffs, diff)]
    /\ UNCHANGED <<manualKeyframes, zoomRegions, keyframes, mouseEvents,
                   selectedKeyframeId, selectedRegionId, isAnalyzing, lastOp>>
    /\ UNCHANGED <<sampleVars, isExporting, isPlaying, export, cameraVars, recorder>>

(* analyzeMotionFailed without the restore of the finally block *)
analyzeMotionFailed_noRestore ==
    /\ analysis.pc = "running"
    /\ ANALYSIS_INTERVAL * analysis.index < VideoDuration
    /\ analysis' = [analysis EXCEPT !.pc = "failed"]
    /\ isAnalyzing' = FALSE
    /\ UNCHANGED <<manualKeyframes, zoomRegions, keyframes, mouseEvents,
                   selectedKeyframeId, selectedRegionId, lastOp>>
    /\ UNCHANGED <<sampleVars, exportVars, cameraVars, recorder>>

(* lines 307-312: drawImage or getImageData throws; catch, then finally *)
analyzeMotionFailed ==
    /\ analysis.pc = "running"
    /\ ANALYSIS_INTERVAL * analysis.index < VideoDuration
    /\ analysis' = [analysis EXCEPT !.pc = "failed"]
    /\ isAnalyzing' = FALSE
    /\ video' = [video EXCEPT !.currentTime = analysis.originalTime]
    /\ UNCHANGED <<manualKeyframes, zoomRegions, keyframes, mouseEvents,
                   selectedKeyframeId, selectedRegionId, lastOp>>
    /\ UNCHANGED <<sampleVars, isExporting, isPlaying, export, cameraVars, recorder>>

(* lines 305-312: the loop is over; setKeyframes, then finally *)
analyzeMotionDone ==
    /\ analysis.pc = "running"
    /\ ANALYSIS_INTERVAL * analysis.index >= VideoDuration
    /\ keyframes' = SortByTime(analysis.st.generatedKeyframes)
    /\ analysis' = [analysis EXCEPT !.pc = "done"]
    /\ isAnalyzing' = FALSE
    /\ video' = [video EXCEPT !.currentTime = analysis.originalTime]
    /\ lastOp' = "analyzeMotion"
    /\ UNCHANGED <<manualKeyframes, zoomRegions, mouseEvents, selectedKeyframeId,
                   selectedRegionId>>
    /\ UNCHANGED <<sampleVars, isExporting, isPlaying, export, cameraVars, recorder>>

(* timeline onClick of the earlier editor, lines 423-429 *)
legacyTimelineClick(clickedTime) ==
    /\ video' = [video EXCEPT !.currentTime = clickedTime]
    /\ UNCHANGED <<manualKeyframes, zoomRegions, keyframes, mouseEvents,
                   selectedKeyframeId, selectedRegionId, isAnalyzing, lastOp>>
    /\ UNCHANGED <<sampleVars, isExporting, isPlaying, export, analysis, cameraVars,
                   recorder>>

FrameDiffs ==
    { FrameDiff(40, 2, 25, 75), FrameDiff(0, 0, 0, 0), FrameDiff(5000, 60, 50, 50) }

DiffSequences == UNION { [1..n -> FrameDiffs] : n \in 0..MaxSamples }

LegacyInit ==
    /\ manualKeyframes = <<StartKeyframe>>
    /\ zoomRegions = <<>>
    /\ keyframes = <<StartKeyframe>>
    /\ mouseEvents = <<>>
    /\ selectedKeyframeId = "start"
    /\ selectedRegionId = Null
    /\ isAnalyzing = FALSE
    /\ lastOp = "init"
    /\ sampleTime = 0
    /\ cameraTarget = PoseOf(StartKeyframe)
    /\ framePose = PoseOf(StartKeyframe)
    /\ RestIdle

LegacyNext ==
    \/ \E ui \in ControlSurface :
          legacyAddKeyframe(ui.currentTime, ui.zoomLevel, ui.panX, ui.panY)
    \/ \E id \in Ids(keyframes) \cup ({selectedKeyframeId} \ {Null}) :
          legacyDeleteKeyframe(id)
    \/ \E i \in 1..Len(keyframes) : legacyKeyframeClick(i)
    \/ \E diffs \in DiffSequences : analyzeMotion(diffs)

LegacySpec == LegacyInit /\ [][LegacyNext]_vars

(* The analysis run step by step, with the timeline and the keyframe dots   *)
(* clicked before, during and after it.                                     *)
AnalysisNext ==
    \/ \E hasContext \in BOOLEAN : analyzeMotionStart(hasContext)
    \/ \E diff \in FrameDiffs : analyzeMotionSample(diff)
    \/ analyzeMotionFailed
    \/ analyzeMotionDone
    \/ \E clickedTime \in SeekTimes : legacyTimelineClick(clickedTime)
    \/ \E i \in 1..Len(keyframes) : legacyKeyframeClick(i)

AnalysisSpec == LegacyInit /\ [][AnalysisNext]_vars

-----------------------------------------------------------------------------
(* Export (handleExport, lines 873-1006) over the <video> element that the  *)
(* preview shows.  export.pc is the position of the run:                    *)
(*   "idle"      no run yet                                                 *)
(*   "aborted"   returned at line 880 (no 2D context)                       *)
(*   "waitSeek"  in the 100 ms wait of line 914                             *)
(*   "waitPlay"  video.play() called, its promise pending                   *)
(*   "scheduled" renderFrame requested by requestAnimationFrame             *)
(*   "stopping"  mediaRecorder.stop() called, onstop pending                *)
(*   "done"      onstop has run                                             *)
(* export.keyframes is the keyframes value renderFrame closes over,         *)
(* export.frames the frames drawn to the captured canvas, export.finalized  *)
(* the number of mediaRecorder.stop() calls of the run.                     *)

FrameAdvance == 50
MaxFrames == 3

ExportRunning == export.pc \in {"waitSeek", "waitPlay", "scheduled"}

handleExport(hasContext) ==
    /\ ~isExporting
    /\ isExporting' = TRUE
    /\ IF hasContext
       THEN /\ export' = [pc |-> "waitSeek", keyframes |-> keyframes, due |-> FALSE,
                          frames |-> <<>>, finalized |-> 0]
            /\ video' = [video EXCEPT !.currentTime = 0, !.ended = FALSE]
       ELSE /\ export' = [export EXCEPT !.pc = "aborted"]
            /\ UNCHANGED video
    /\ UNCHANGED lastOp
    /\ UNCHANGED <<manualKeyframes, zoomRegions, keyframes, mouseEvents,
                   selectedKeyframeId, selectedRegionId, isAnalyzing, isPlaying>>
    /\ UNCHANGED <<sampleVars, analysis, cameraVars, recorder>>

(* HTMLMediaElement.play(): playback restarts from 0 when it had ended *)
Played(v) ==
    IF v.ended THEN [currentTime |-> 0, paused |-> FALSE, ended |-> FALSE]
    ELSE [v EXCEPT !.paused = FALSE]

(* line 1003: the wait is over and video.play() is called *)
exportPlay ==
    /\ export.pc = "waitSeek"
    /\ video' = Played(video)
    /\ export' = [export EXCEPT !.pc = "waitPlay"]
    /\ UNCHANGED lastOp
    /\ UNCHANGED <<manualKeyframes, zoomRegions, keyframes, mouseEvents,
                   selectedKeyframeId, selectedRegionId, isAnalyzing, isExporting,
                   isPlaying>>
    /\ UNCHANGED <<sampleVars, analysis, cameraVars, recorder>>

(* lines 1003-1005: the promise of play() resolves while the video plays *)
exportPlayResolved ==
    /\ export.pc = "waitPlay"
    /\ ~video.paused
    /\ export' = [export EXCEPT !.pc = "scheduled", !.due = FALSE]
    /\ UNCHANGED lastOp
    /\ UNCHANGED <<manualKeyframes, zoomRegions, keyframes, mouseEvents,
                   selectedKeyframeId, selectedRegionId, isAnalyzing, isExporting,
                   isPlaying, video>>
    /\ UNCHANGED <<sampleVars, analysis, cameraVars, recorder>>

(* One display frame passes: a playing video advances, at its end it is    *)
(* paused and ended and onEnded (line 1124) runs; a requested animation    *)
(* frame becomes due.                                                      *)
displayFrame(dt) ==
    /\ (~video.paused /\ ~video.ended) \/ (export.pc = "scheduled" /\ ~export.due)
    /\ IF ~video.paused /\ ~video.ended
       THEN IF video.currentTime + dt >= VideoDuration
            THEN /\ video' = [currentTime |-> VideoDuration, paused |-> TRUE,
                              ended |-> TRUE]
                 /\ isPlaying' = FALSE
            ELSE /\ video' = [video EXCEPT !.currentTime = video.currentTime + dt]
                 /\ UNCHANGED isPlaying
       ELSE UNCHANGED <<video, isPlaying>>
    /\ export' = IF export.pc = "scheduled" THEN [export EXCEPT !.due = TRUE] ELSE export
    /\ UNCHANGED <<manualKeyframes, zoomRegions, keyframes, mouseEvents,
                   selectedKeyframeId, selectedRegionId, isAnalyzing, isExporting,
                   lastOp>>
    /\ UNCHANGED <<sampleVars, analysis, cameraVars, recorder>>

ExportFrame(time, pose) == [time |-> time, pose |-> pose]

(* renderFrame that goes on after mediaRecorder.stop() *)
renderFrame_noReturn ==
    /\ export.pc = "scheduled"
    /\ export.due
    /\ export' = [export EXCEPT
                    !.finalized = IF video.ended \/ video.paused
                                  THEN export.finalized + 1 ELSE export.finalized,
                    !.frames = Append(export.frames,
                                      ExportFrame(video.currentTime,
                                                  RenderFramePose(export.keyframes,
                                                                  video.currentTime))),
                    !.due = FALSE]
    /\ UNCHANGED lastOp
    /\ UNCHANGED <<manualKeyframes, zoomRegions, keyframes, mouseEvents,
                   selectedKeyframeId, selectedRegionId, isAnalyzing, isExporting,
                   isPlaying, video>>
    /\ UNCHANGED <<sampleVars, analysis, cameraVars, recorder>>

renderFrame ==
    /\ export.pc = "scheduled"
    /\ export.due
    /\ IF video.ended \/ video.paused
       THEN export' = [export EXCEPT !.pc = "stopping",
                                     !.finalized = export.finalized + 1,
                                     !.due = FALSE]
       ELSE export' = [export EXCEPT
                         !.frames = Append(export.frames,
                                           ExportFrame(video.currentTime,
                                                       RenderFramePose(export.keyframes,
                                                                       video.currentTime))),
                         !.due = FALSE]
    /\ UNCHANGED lastOp
    /\ UNCHANGED <<manualKeyframes, zoomRegions, keyframes, mouseEvents,
                   selectedKeyframeId, selectedRegionId, isAnalyzing, isExporting,
                   isPlaying, video>>
    /\ UNCHANGED <<sampleVars, analysis, cameraVars, recorder>>

(* mediaRecorder.onstop, lines 898-907 *)
exportOnStop ==
    /\ export.pc = "stopping"
    /\ export' = [export EXCEPT !.pc = "done"]
    /\ isExporting' = FALSE
    /\ UNCHANGED lastOp
    /\ UNCHANGED <<manualKeyframes, zoomRegions, keyframes, mouseEvents,
                   selectedKeyframeId, selectedRegionId, isAnalyzing, isPlaying, video>>
    /\ UNCHANGED <<sampleVars, analysis, cameraVars, recorder>>

(* timeline-track onClick, lines 1291-1296 *)
timelineClick(clickedTime) ==
    /\ Len(export.frames) < MaxFrames
    /\ video' = [video EXCEPT !.currentTime = clickedTime,
                              !.ended = clickedTime >= VideoDuration]
    /\ UNCHANGED lastOp
    /\ UNCHANGED <<manualKeyframes, zoomRegions, keyframes, mouseEvents,
                   selectedKeyframeId, selectedRegionId, isAnalyzing, isExporting,
                   isPlaying, export>>
    /\ UNCHANGED <<sampleVars, analysis, cameraVars, recorder>>

(* togglePlay, lines 817-825; the button stays focusable under the overlays *)
togglePlay ==
    /\ Len(export.frames) < MaxFrames
    /\ video' = IF isPlaying THEN [video EXCEPT !.paused = TRUE] ELSE Played(video)
    /\ isPlaying' = ~isPlaying
    /\ UNCHANGED lastOp
    /\ UNCHANGED <<manualKeyframes, zoomRegions, keyframes, mouseEvents,
                   selectedKeyframeId, selectedRegionId, isAnalyzing, isExporting,
                   export>>
    /\ UNCHANGED <<sampleVars, analysis, cameraVars, recorder>>

(* The trajectory an export starts from *)
ExportKeyframe == Keyframe("1", 100, 300, 30, 70, "none")

ExportInit ==
    /\ manualKeyframes = <<StartKeyframe, ExportKeyframe>>
    /\ zoomRegions = <<>>
    /\ keyframes = DeriveKeyframes(<<StartKeyframe, ExportKeyframe>>, <<>>, <<>>)
    /\ mouseEvents = <<>>
    /\ selectedKeyframeId = Null
    /\ selectedRegionId = Null
    /\ isAnalyzing = FALSE
    /\ lastOp = "init"
    /\ sampleTime = 0
    /\ cameraTarget = PoseOf(StartKeyframe)
    /\ framePose = PoseOf(StartKeyframe)
    /\ RestIdle

ExportNext ==
    \/ \E hasContext \in BOOLEAN : handleExport(hasContext)
    \/ exportPlay
    \/ exportPlayResolved
    \/ displayFrame(FrameAdvance)
    \/ renderFrame
    \/ exportOnStop
    \/ \E clickedTime \in SeekTimes : timelineClick(clickedTime)
    \/ togglePlay

ExportSpec == ExportInit /\ [][ExportNext]_vars

(* The export with the keyframe buttons in use and the playback controls    *)
(* left alone.                                                              *)
ExportEditNext ==
    \/ handleExport(TRUE)
    \/ exportPlay
    \/ exportPlayResolved
    \/ displayFrame(FrameAdvance)
    \/ renderFrame
    \/ exportOnStop
    \/ \E ui \in ControlSurface :
          addKeyframe(video.currentTime, ui.zoomLevel, ui.panX, ui.panY)
    \/ \E id \in Ids(manualKeyframes) : deleteKeyframe(id)

ExportEditSpec == ExportInit /\ [][ExportEditNext]_vars

-----------------------------------------------------------------------------
(* ScreenRecorder (screen-recorder.tsx): the capture of global input events *)
(* during a recording.  Times are in milliseconds, as Date.now() gives      *)
(* them; screen coordinates are in pixels, devicePixelRatio is 1.           *)

ScreenWidth == 200
ScreenHeight == 100
MaxEvents == 2
MaxClock == 2

(* JavaScript numbers: a value, or NaN *)
NaN == [nan |-> TRUE, val |-> 0]
Num(n) == [nan |-> FALSE, val |-> n]

(* Math.min and Math.max: NaN if either argument is NaN *)
MathMin(a, b) == IF a.nan \/ b.nan THEN NaN ELSE IF a.val <= b.val THEN a ELSE b
MathMax(a, b) == IF a.nan \/ b.nan THEN NaN ELSE IF a.val >= b.val THEN a ELSE b

(* (event.eventData.x / screenW) * 100: a property the event data does not  *)
(* have reads as undefined, and undefined / screenW is NaN                  *)
Percent(eventData, axis, screen) ==
    IF axis \in DOMAIN eventData
    THEN Num((eventData[axis] * 100) \div screen)
    ELSE NaN

(* What the main process forwards on 'global-event' (electron/main.ts):     *)
(* the hook's mouse events carry x and y, its keyboard events a keycode     *)
GlobalEvents ==
    { [type |-> "mousemove", eventData |-> [x |-> -40, y |-> 50]],
      [type |-> "mousedown", eventData |-> [x |-> 100, y |-> 300]],
      [type |-> "keydown", eventData |-> [keycode |-> 30]] }

MaxPending == 2
MaxRecordings == 2

(* Whether a MediaRecorder has yet to fire its stop event *)
Active(mediaRecorder) == mediaRecorder.state # "inactive" \/ mediaRecorder.stopQueued

(* startRecording and handleSourceSelection, lines 65-117: a stream is      *)
(* asked for (getDisplayMedia line 80, getUserMedia line 112) and           *)
(* handleStreamSuccess runs when the promise resolves.  The button that     *)
(* starts this is shown while isRecording is false (lines 259-260).         *)
requestStream ==
    /\ ~recorder.isRecording
    /\ recorder.pending < MaxPending
    /\ recorder.started + recorder.pending < MaxRecordings
    /\ recorder' = [recorder EXCEPT !.pending = recorder.pending + 1]
    /\ UNCHANGED <<editorVars, sampleVars, exportVars, analysis, cameraVars>>

(* lines 119-194: the refs are assigned whatever they held *)
handleStreamSuccess(electron) ==
    /\ recorder.pending > 0
    /\ ~(Active(recorder) /\ Active(recorder.orphan))
    /\ recorder' = [recorder EXCEPT
                      !.pending = recorder.pending - 1,
                      !.started = recorder.started + 1,
                      !.orphan = IF Active(recorder)
                                 THEN [state |-> recorder.state,
                                       stopQueued |-> recorder.stopQueued]
                                 ELSE recorder.orphan,
                      !.events = <<>>,
                      !.delivered.shared = FALSE,
                      !.startTime = recorder.now,
                      !.orphanListeners = IF electron /\ recorder.listening
                                          THEN recorder.orphanListeners + 1
                                          ELSE recorder.orphanListeners,
                      !.listening = electron \/ recorder.listening,
                      !.state = "recording",
                      !.stopQueued = FALSE,
                      !.isRecording = TRUE]
    /\ UNCHANGED <<editorVars, sampleVars, exportVars, analysis, cameraVars>>

(* count copies of an element *)
Copies(element, count) == [ i \in 1..count |-> element ]

(* A 'global-event' message: every registered listener (lines 140-160)     *)
(* runs and pushes onto the array eventsRef holds at that moment            *)
onGlobalEvent(event) ==
    LET listeners == (IF recorder.listening THEN 1 ELSE 0) + recorder.orphanListeners
        timeInSeconds == recorder.now - recorder.startTime
        xPercent == Percent(event.eventData, "x", ScreenWidth)
        yPercent == Percent(event.eventData, "y", ScreenHeight)
        normalizedEvent == [type |-> event.type,
                            time |-> timeInSeconds,
                            x |-> MathMax(Num(0), MathMin(Num(100), xPercent)),
                            y |-> MathMax(Num(0), MathMin(Num(100), yPercent))]
        pushed == Copies(normalizedEvent, listeners)
    IN  /\ listeners > 0
        /\ Len(recorder.events) + listeners <= MaxEvents
        /\ recorder' = [recorder EXCEPT
                          !.events = recorder.events \o pushed,
                          !.delivered.events =
                              IF recorder.delivered.shared
                              THEN recorder.delivered.events \o pushed
                              ELSE recorder.delivered.events]
        /\ UNCHANGED <<editorVars, sampleVars, exportVars, analysis, cameraVars>>

(* lines 196-203, from the stop button or the ending of the track recorded  *)
(* by mediaRecorderRef's recorder (line 125): MediaRecorder.stop() makes    *)
(* the recorder inactive and queues its stop event                          *)
stopRecording ==
    /\ recorder.state # "inactive"
    /\ recorder' = [recorder EXCEPT !.state = "inactive", !.stopQueued = TRUE]
    /\ UNCHANGED <<editorVars, sampleVars, exportVars, analysis, cameraVars>>

(* The track recorded by the orphan ends: its MediaRecorder stops, as all   *)
(* its tracks have ended, and onended (line 125) calls stopRecording, which *)
(* stops the recorder of mediaRecorderRef                                   *)
orphanTrackEnded ==
    /\ recorder.orphan.state # "inactive"
    /\ recorder' = [recorder EXCEPT
                      !.orphan = [state |-> "inactive", stopQueued |-> TRUE],
                      !.state = "inactive",
                      !.stopQueued = recorder.stopQueued \/ recorder.state # "inactive"]
    /\ UNCHANGED <<editorVars, sampleVars, exportVars, analysis, cameraVars>>

(* mediaRecorder.onstop, lines 167-190, of the recorder of mediaRecorderRef *)
(* or of the orphan                                                         *)
recorderOnStop(orphaned) ==
    /\ IF orphaned THEN recorder.orphan.stopQueued ELSE recorder.stopQueued
    /\ recorder' = [recorder EXCEPT
                      !.stopQueued = IF orphaned THEN recorder.stopQueued ELSE FALSE,
                      !.orphan.stopQueued = IF orphaned THEN FALSE
                                            ELSE recorder.orphan.stopQueued,
                      !.listening = FALSE,
                      !.deliveries = recorder.deliveries + 1,
                      !.delivered = [made |-> TRUE, events |-> recorder.events,
                                     startedAt |-> recorder.startTime,
                                     stoppedAt |-> recorder.now,
                                     shared |-> TRUE],
                      !.isRecording = FALSE]
    /\ UNCHANGED <<editorVars, sampleVars, exportVars, analysis, cameraVars>>

(* Date.now() moves on *)
clockTick ==
    /\ recorder.now < MaxClock
    /\ recorder' = [recorder EXCEPT !.now = recorder.now + 1]
    /\ UNCHANGED <<editorVars, sampleVars, exportVars, analysis, cameraVars>>

RecorderNext ==
    \/ requestStream
    \/ \E electron \in BOOLEAN : handleStreamSuccess(electron)
    \/ \E event \in GlobalEvents : onGlobalEvent(event)
    \/ stopRecording
    \/ orphanTrackEnded
    \/ \E orphaned \in BOOLEAN : recorderOnStop(orphaned)
    \/ clockTick

RecorderSpec == Init /\ [][RecorderNext]_vars

-----------------------------------------------------------------------------
(* The preview loop's smoothing (updateTransform, step 4) while the target  *)
(* does not change: the playhead rests at a time after the last keyframe,   *)
(* the loop runs once per animation frame.                                  *)

CAMERA_DAMPING_POS == 5
CAMERA_DAMPING_ZOOM == 8
SNAP_POS == POS_SCALE \div 100
SNAP_ZOOM == (100 * ZOOM_SCALE) \div 1000
MaxSmoothSteps == 200

(* The number of steps within which the camera is on its target *)
SettleSteps == 180

(* n / d rounded to the nearest step *)
RoundDiv(n, d) == (2 * n + d) \div (2 * d)

(* current + (target - current) * factor, factor in hundredths *)
lerp(current, target, factor) == current + RoundDiv((target - current) * factor, 100)

(* n / d in steps of 1 / scale, rounded to the nearest step *)
ToSteps(n, d, scale) == (n \div d) * scale + RoundDiv((n % d) * scale, d)

(* The target pose in the camera's steps *)
TargetOf(kfs, time) ==
    LET target == CameraTarget(kfs, time)
    IN  [x |-> ToSteps(target.x, target.den, POS_SCALE),
         y |-> ToSteps(target.y, target.den, POS_SCALE),
         zoom |-> ToSteps(target.zoom, target.den, ZOOM_SCALE)]

(* updateTransform without the snap of lines 741-743 *)
updateTransform_noSnap ==
    /\ isPlaying
    /\ smoothSteps < MaxSmoothSteps
    /\ LET time == video.currentTime
           target == TargetOf(keyframes, time)
       IN  /\ sampleTime' = time
           /\ cameraTarget' = CameraTarget(keyframes, time)
           /\ virtualCamera' =
                 [x |-> lerp(virtualCamera.x, target.x, CAMERA_DAMPING_POS),
                  y |-> lerp(virtualCamera.y, target.y, CAMERA_DAMPING_POS),
                  zoom |-> lerp(virtualCamera.zoom, target.zoom, CAMERA_DAMPING_ZOOM)]
    /\ smoothSteps' = smoothSteps + 1
    /\ UNCHANGED <<editorVars, framePose, exportVars, analysis, preview, recorder>>

(* lines 690-754, run from requestAnimationFrame while isPlaying *)
updateTransform ==
    /\ isPlaying
    /\ smoothSteps < MaxSmoothSteps
    /\ LET time == video.currentTime
           target == TargetOf(keyframes, time)
           x == lerp(virtualCamera.x, target.x, CAMERA_DAMPING_POS)
           y == lerp(virtualCamera.y, target.y, CAMERA_DAMPING_POS)
           zoom == lerp(virtualCamera.zoom, target.zoom, CAMERA_DAMPING_ZOOM)
       IN  /\ sampleTime' = time
           /\ cameraTarget' = CameraTarget(keyframes, time)
           /\ virtualCamera' =
                 [x |-> IF Abs(target.x - x) < SNAP_POS THEN target.x ELSE x,
                  y |-> IF Abs(target.y - y) < SNAP_POS THEN target.y ELSE y,
                  zoom |-> IF Abs(target.zoom - zoom) < SNAP_ZOOM THEN target.zoom ELSE zoom]
    /\ smoothSteps' = smoothSteps + 1
    /\ UNCHANGED <<editorVars, framePose, exportVars, analysis, preview, recorder>>

(* The camera as the loop finds it: at rest, or settled on keyframe c *)
SmoothStarts ==
    { CameraRest,
      [x |-> 80 * POS_SCALE, y |-> 20 * POS_SCALE, zoom |-> 200 * ZOOM_SCALE] }

SmoothInit ==
    /\ manualKeyframes = <<StartKeyframe>>
    /\ zoomRegions = <<>>
    /\ keyframes \in Trajectories
    /\ mouseEvents = <<>>
    /\ selectedKeyframeId = Null
    /\ selectedRegionId = Null
    /\ isAnalyzing = FALSE
    /\ lastOp = "init"
    /\ sampleTime = 0
    /\ cameraTarget = PoseOf(StartKeyframe)
    /\ framePose = PoseOf(StartKeyframe)
    /\ video = [currentTime |-> 300, paused |-> FALSE, ended |-> FALSE]
    /\ isExporting = FALSE
    /\ isPlaying = TRUE
    /\ export = ExportIdle
    /\ analysis = AnalysisIdle
    /\ virtualCamera \in SmoothStarts
    /\ smoothSteps = 0
    /\ preview = [mounted |-> TRUE, deps |-> Deps, animationFrameId |-> 1,
                  scheduled |-> {[id |-> 1, isPlaying |-> TRUE, live |-> TRUE]}]
    /\ recorder = RecorderIdle

SmoothNext == updateTransform

SmoothSpec == SmoothInit /\ [][SmoothNext]_vars

-----------------------------------------------------------------------------
(* Scrubbing while paused: a timeline click seeks the video, the video's    *)
(* timeupdate sets currentTime, and the preview effect runs again and,      *)
(* finding isPlaying false, calls updateTransform once.  The state          *)
(* currentTime of the component is sampleTime.                              *)

MaxScrubs == 4

(* updateTransform, step 4, on a camera and a target *)
SmoothStep(camera, target) ==
    LET x == lerp(camera.x, target.x, CAMERA_DAMPING_POS)
        y == lerp(camera.y, target.y, CAMERA_DAMPING_POS)
        zoom == lerp(camera.zoom, target.zoom, CAMERA_DAMPING_ZOOM)
    IN  [x |-> IF Abs(target.x - x) < SNAP_POS THEN target.x ELSE x,
         y |-> IF Abs(target.y - y) < SNAP_POS THEN target.y ELSE y,
         zoom |-> IF Abs(target.zoom - zoom) < SNAP_ZOOM THEN target.zoom ELSE zoom]

(* onTimeUpdate, line 1125: setCurrentTime(e.currentTarget.currentTime) *)
onTimeUpdate ==
    /\ sampleTime # video.currentTime
    /\ smoothSteps < MaxScrubs
    /\ sampleTime' = video.currentTime
    /\ UNCHANGED <<editorVars, cameraTarget, framePose, restVars>>

(* A requested animation frame: its id, the isPlaying its effect run closed *)
(* over, and whether that effect run is the current one                     *)
Callback(id, playing, live) == [id |-> id, isPlaying |-> playing, live |-> live]

MaxCallbacks == 3
MaxRenders == 6

(* requestAnimationFrame returns an id not in use *)
FreeIds(scheduled, animationFrameId) ==
    { id \in 1..MaxCallbacks :
        /\ id # animationFrameId
        /\ \A c \in scheduled : c.id # id }

FreeId(scheduled, animationFrameId) ==
    CHOOSE id \in FreeIds(scheduled, animationFrameId) :
        \A other \in FreeIds(scheduled, animationFrameId) : id <= other

(* The cleanup of lines 763-765: cancelAnimationFrame(animationFrameId);    *)
(* what stays requested belongs to an effect run that is no longer current  *)
Cleanup(scheduled, animationFrameId) ==
    { Callback(c.id, c.isPlaying, FALSE) :
        c \in { d \in scheduled : d.id # animationFrameId } }

(* previewEffect whose cleanup cancels nothing *)
previewEffect_noCancel ==
    /\ preview.mounted
    /\ preview.deps # Deps
    /\ LET kept == { Callback(c.id, c.isPlaying, FALSE) : c \in preview.scheduled }
       IN  IF isPlaying
           THEN /\ FreeIds(kept, 0) # {}
                /\ LET id == FreeId(kept, 0)
                   IN  preview' = [preview EXCEPT
                                     !.deps = Deps,
                                     !.animationFrameId = id,
                                     !.scheduled = kept \cup {Callback(id, TRUE, TRUE)}]
                /\ UNCHANGED <<sampleTime, cameraTarget, virtualCamera, smoothSteps>>
           ELSE /\ smoothSteps < MaxRenders
                /\ LET time == video.currentTime
                   IN  /\ sampleTime' = time
                       /\ cameraTarget' = CameraTarget(keyframes, time)
                       /\ virtualCamera' = SmoothStep(virtualCamera, TargetOf(keyframes, time))
                /\ smoothSteps' = smoothSteps + 1
                /\ preview' = [preview EXCEPT !.deps = Deps, !.animationFrameId = 0,
                                              !.scheduled = kept]
    /\ UNCHANGED <<editorVars, framePose, exportVars, analysis, recorder>>

(* The preview effect runs again because a dependency changed (lines        *)
(* 687-768): the cleanup of the run before, then requestAnimationFrame when *)
(* playing, one synchronous updateTransform when not                        *)
previewEffect ==
    /\ preview.mounted
    /\ preview.deps # Deps
    /\ LET kept == Cleanup(preview.scheduled, preview.animationFrameId)
       IN  IF isPlaying
           THEN /\ FreeIds(kept, 0) # {}
                /\ LET id == FreeId(kept, 0)
                   IN  preview' = [preview EXCEPT
                                     !.deps = Deps,
                                     !.animationFrameId = id,
                                     !.scheduled = kept \cup {Callback(id, TRUE, TRUE)}]
                /\ UNCHANGED <<sampleTime, cameraTarget, virtualCamera, smoothSteps>>
           ELSE /\ smoothSteps < MaxRenders
                /\ LET time == video.currentTime
                   IN  /\ sampleTime' = time
                       /\ cameraTarget' = CameraTarget(keyframes, time)
                       /\ virtualCamera' = SmoothStep(virtualCamera, TargetOf(keyframes, time))
                /\ smoothSteps' = smoothSteps + 1
                /\ preview' = [preview EXCEPT !.deps = Deps, !.animationFrameId = 0,
                                              !.scheduled = kept]
    /\ UNCHANGED <<editorVars, framePose, exportVars, analysis, recorder>>

(* The browser runs a requested animation frame: updateTransform in the     *)
(* closure of the effect run that requested it (lines 690-754); it returns  *)
(* at line 691 when the component is gone                                   *)
animationFrame(c) ==
    /\ c \in preview.scheduled
    /\ smoothSteps < MaxRenders
    /\ LET rest == preview.scheduled \ {c}
       IN  IF ~preview.mounted
           THEN /\ preview' = [preview EXCEPT !.scheduled = rest]
                /\ UNCHANGED <<sampleTime, cameraTarget, virtualCamera, smoothSteps>>
           ELSE
           /\ LET time == video.currentTime
              IN  /\ sampleTime' = time
                  /\ cameraTarget' = CameraTarget(keyframes, time)
                  /\ virtualCamera' = SmoothStep(virtualCamera, TargetOf(keyframes, time))
           /\ smoothSteps' = smoothSteps + 1
           /\ IF c.isPlaying
              THEN /\ FreeIds(rest, preview.animationFrameId) # {}
                   /\ LET id == FreeId(rest, preview.animationFrameId)
                      IN  preview' = [preview EXCEPT
                                        !.scheduled = rest \cup {Callback(id, TRUE, c.live)},
                                        !.animationFrameId =
                                            IF c.live THEN id ELSE preview.animationFrameId]
              ELSE preview' = [preview EXCEPT !.scheduled = rest]
    /\ UNCHANGED <<editorVars, framePose, exportVars, analysis, recorder>>

(* The editor is torn down: the cleanup of the current effect run *)
unmount ==
    /\ preview.mounted
    /\ preview' = [preview EXCEPT
                     !.mounted = FALSE,
                     !.animationFrameId = 0,
                     !.scheduled = Cleanup(preview.scheduled, preview.animationFrameId)]
    /\ UNCHANGED <<editorVars, sampleVars, exportVars, analysis, virtualCamera,
                   smoothSteps, recorder>>

ScrubInit ==
    /\ manualKeyframes = <<StartKeyframe>>
    /\ zoomRegions = <<>>
    /\ keyframes \in Trajectories
    /\ mouseEvents = <<>>
    /\ selectedKeyframeId = Null
    /\ selectedRegionId = Null
    /\ isAnalyzing = FALSE
    /\ lastOp = "init"
    /\ sampleTime = 0
    /\ cameraTarget = PoseOf(StartKeyframe)
    /\ framePose = PoseOf(StartKeyframe)
    /\ video = VideoIdle
    /\ isExporting = FALSE
    /\ isPlaying = FALSE
    /\ export = ExportIdle
    /\ analysis = AnalysisIdle
    /\ virtualCamera \in SmoothStarts
    /\ smoothSteps = 0
    /\ preview = PreviewSettled(Deps)
    /\ recorder = RecorderIdle

ScrubNext ==
    \/ \E clickedTime \in SeekTimes : timelineClick(clickedTime)
    \/ onTimeUpdate
    \/ previewEffect

ScrubSpec == ScrubInit /\ [][ScrubNext]_vars

(* The preview loop and its scheduling: the editor as constructed, played,  *)
(* paused, scrubbed, played to its end and torn down.                       *)
PreviewNext ==
    \/ preview.mounted /\ togglePlay
    \/ preview.mounted /\ displayFrame(FrameAdvance)
    \/ preview.mounted /\ \E clickedTime \in SeekTimes : timelineClick(clickedTime)
    \/ preview.mounted /\ onTimeUpdate
    \/ previewEffect
    \/ \E c \in preview.scheduled : animationFrame(c)
    \/ unmount

PreviewSpec == Init /\ [][PreviewNext]_vars

-----------------------------------------------------------------------------
(* RecordPage (app/record/page.tsx): it shows the ScreenRecorder until its  *)
(* state videoBlob is set, then the VideoEditor.  onRecordingComplete is    *)
(* setVideoBlob, so videoBlob is what the recorder delivered.               *)

(* The props RecordPage gives the editor, line 21 *)
EditorProps == [videoBlob |-> recorder.delivered]

(* URL.createObjectURL (line 520) takes a Blob; what the recorder delivers  *)
(* is a RecordingData object, which holds the Blob in its field videoBlob   *)
IsBlob(value) == "events" \notin DOMAIN value

(* RecordPage renders the VideoEditor (lines 18-22, and lines 519-520 of    *)
(* the editor): a prop that is not given takes its default, and the render  *)
(* fails when createObjectURL throws                                        *)
renderEditor ==
    /\ recorder.delivered.made
    /\ ~preview.mounted
    /\ lastOp # "renderEditor"
    /\ mouseEvents' = IF "mouseEvents" \in DOMAIN EditorProps
                      THEN EditorProps.mouseEvents
                      ELSE <<>>
    /\ preview' = [preview EXCEPT !.mounted = IsBlob(EditorProps.videoBlob)]
    /\ lastOp' = "renderEditor"
    /\ UNCHANGED <<manualKeyframes, zoomRegions, keyframes, selectedKeyframeId,
                   selectedRegionId, isAnalyzing>>
    /\ UNCHANGED <<sampleVars, exportVars, analysis, virtualCamera, smoothSteps,
                   recorder>>

PageInit ==
    /\ manualKeyframes = <<StartKeyframe>>
    /\ zoomRegions = <<>>
    /\ keyframes = <<StartKeyframe>>
    /\ mouseEvents = <<>>
    /\ selectedKeyframeId = Null
    /\ selectedRegionId = Null
    /\ isAnalyzing = FALSE
    /\ lastOp = "init"
    /\ sampleTime = 0
    /\ cameraTarget = PoseOf(StartKeyframe)
    /\ framePose = PoseOf(StartKeyframe)
    /\ video = VideoIdle
    /\ isExporting = FALSE
    /\ isPlaying = FALSE
    /\ export = ExportIdle
    /\ analysis = AnalysisIdle
    /\ virtualCamera = CameraRest
    /\ smoothSteps = 0
    /\ preview = [PreviewSettled(Deps) EXCEPT !.mounted = FALSE]
    /\ recorder = RecorderIdle

(* The recorder's buttons are on the page while videoBlob is not set; what  *)
(* it registered and started goes on                                        *)
PageNext ==
    \/ ~recorder.delivered.made /\ requestStream
    \/ ~recorder.delivered.made /\ \E electron \in BOOLEAN : handleStreamSuccess(electron)
    \/ \E event \in GlobalEvents : onGlobalEvent(event)
    \/ ~recorder.delivered.made /\ stopRecording
    \/ orphanTrackEnded
    \/ \E orphaned \in BOOLEAN : recorderOnStop(orphaned)
    \/ clockTick
    \/ renderEditor

PageSpec == PageInit /\ [][PageNext]_vars

-----------------------------------------------------------------------------
(* Properties *)

StartCount(kfs) == Cardinality({ i \in 1..Len(kfs) : kfs[i].id = "start" })

(* C1: after any sequence of add-keyframe, delete-keyframe and synthesis    *)
(* operations the keyframe set the user edits holds exactly one keyframe    *)
(* with id 'start', and that keyframe is at time 0.  Checked on the earlier *)
(* editor, whose edited set is keyframes.                                   *)
C1_StartKeyframeKept ==
    /\ StartCount(keyframes) = 1
    /\ \A i \in 1..Len(keyframes) : keyframes[i].id = "start" => keyframes[i].time = 0

(* C2: sampling performs no extrapolation: before the first keyframe's time *)
(* both interpolators return the first keyframe's pose unchanged, and at or *)
(* after the last keyframe's time they return the last keyframe's pose.     *)
C2_NoExtrapolation ==
    lastOp = "sample" =>
        /\ sampleTime < keyframes[1].time =>
              /\ cameraTarget = PoseOf(keyframes[1])
              /\ framePose = PoseOf(keyframes[1])
        /\ sampleTime >= keyframes[Len(keyframes)].time =>
              /\ cameraTarget = PoseOf(keyframes[Len(keyframes)])
              /\ framePose = PoseOf(keyframes[Len(keyframes)])

C2_Witness ==
    /\ lastOp = "sample"
    /\ Len(keyframes) >= 2
    /\ sampleTime > keyframes[Len(keyframes)].time
    /\ PoseOf(keyframes[Len(keyframes)]) # PoseOf(keyframes[Len(keyframes) - 1])

Between(v, a, b) == (a <= v /\ v <= b) \/ (b <= v /\ v <= a)

PoseBetween(p, k1, k2) ==
    /\ Between(p.zoom, k1.zoom * p.den, k2.zoom * p.den)
    /\ Between(p.x, k1.x * p.den, k2.x * p.den)
    /\ Between(p.y, k1.y * p.den, k2.y * p.den)

(* C3: for adjacent keyframes k1, k2 and a time t with k1.time <= t <=      *)
(* k2.time, each of the interpolated zoom, x and y lies between the values  *)
(* of k1 and k2, for the cubic easing of the preview and the quadratic      *)
(* easing of the export.                                                    *)
C3_NoOvershoot ==
    lastOp = "sample" =>
        \A i \in 1..(Len(keyframes) - 1) :
            (keyframes[i].time <= sampleTime /\ sampleTime <= keyframes[i + 1].time) =>
                /\ PoseBetween(cameraTarget, keyframes[i], keyframes[i + 1])
                /\ PoseBetween(framePose, keyframes[i], keyframes[i + 1])

C3_Witness ==
    /\ lastOp = "sample"
    /\ \E i \in 1..(Len(keyframes) - 1) :
          /\ keyframes[i].time < sampleTime
          /\ sampleTime < keyframes[i + 1].time
          /\ 4 * (sampleTime - keyframes[i].time)
                 > 3 * (keyframes[i + 1].time - keyframes[i].time)
          /\ keyframes[i].zoom # keyframes[i + 1].zoom
          /\ ~SamePose(cameraTarget, PoseOf(keyframes[i]))
          /\ ~SamePose(cameraTarget, PoseOf(keyframes[i + 1]))
          /\ ~SamePose(cameraTarget, framePose)

(* C4: sampling a segment exactly halfway in time between k1 and k2 returns *)
(* the componentwise midpoint of the two poses: the eased progress at 0.5   *)
(* is 0.5.                                                                  *)
C4_MidpointAtHalf ==
    lastOp = "sample" =>
        \A i \in 1..(Len(keyframes) - 1) :
            2 * (sampleTime - keyframes[i].time)
                = keyframes[i + 1].time - keyframes[i].time =>
                /\ 2 * cameraTarget.zoom
                      = (keyframes[i].zoom + keyframes[i + 1].zoom) * cameraTarget.den
                /\ 2 * cameraTarget.x
                      = (keyframes[i].x + keyframes[i + 1].x) * cameraTarget.den
                /\ 2 * cameraTarget.y
                      = (keyframes[i].y + keyframes[i + 1].y) * cameraTarget.den

(* [{t:0,z:1,x:50,y:50},{t:2,z:2,x:80,y:20}] sampled at 1.0 is 1.5, 65, 35  *)
C4_Witness ==
    /\ lastOp = "sample"
    /\ keyframes = <<StartKeyframe, Keyframe("c", 200, 200, 80, 20, "ease-in-out")>>
    /\ sampleTime = 100
    /\ SamePose(cameraTarget, Pose(150, 65, 35, 1))

(* C6: in every trajectory the derive effect produces, any two distinct     *)
(* keyframes differ in time by more than 0.05 s and the sequence is sorted  *)
(* by time ascending.                                                       *)
C6_DebouncedAndSorted ==
    lastOp = "derive" =>
        /\ IsSortedByTime(keyframes)
        /\ \A i, j \in 1..Len(keyframes) :
              i < j => keyframes[j].time - keyframes[i].time > DEBOUNCE_GAP

C6_Witness ==
    /\ lastOp = "derive"
    /\ Len(keyframes) >= 3
    /\ Len(zoomRegions) >= 1
    /\ Len(keyframes) < Len(manualKeyframes) + 4 * Len(zoomRegions)

TimedPoses(kfs) ==
    [ i \in 1..Len(kfs) |-> <<kfs[i].time, kfs[i].zoom, kfs[i].x, kfs[i].y>> ]

FiveKeyframes(region) ==
    << <<0, 100, 50, 50>>,
       <<region.startTime - 50, 100, 50, 50>>,
       <<region.startTime, region.targetZoom, region.initialX, region.initialY>>,
       <<region.endTime, region.targetZoom, region.initialX, region.initialY>>,
       <<region.endTime + 80, 100, 50, 50>> >>

(* C7 as stated: the sole 'start' keyframe and one region with start > 0.5, *)
(* without events, compile to exactly five keyframes: 'start' at 0, then    *)
(* start - 0.5 (zoom 1, 50, 50), start (zoom, anchor), end (zoom, anchor)   *)
(* and end + 0.8 (zoom 1, 50, 50).                                          *)
C7_FiveKeyframes_AsStated ==
    ( /\ lastOp = "derive"
      /\ manualKeyframes = <<StartKeyframe>>
      /\ Len(zoomRegions) = 1
      /\ mouseEvents = <<>>
      /\ zoomRegions[1].startTime > 50 ) =>
        TimedPoses(keyframes) = FiveKeyframes(zoomRegions[1])

(* C7, amended: the same for a region with start > 0.55 and end more than   *)
(* 0.05 s after start, so that no region keyframe falls within the          *)
(* debounce gap of its predecessor.                                         *)
C7_FiveKeyframes ==
    ( /\ lastOp = "derive"
      /\ manualKeyframes = <<StartKeyframe>>
      /\ Len(zoomRegions) = 1
      /\ mouseEvents = <<>>
      /\ zoomRegions[1].startTime > 55
      /\ zoomRegions[1].endTime - zoomRegions[1].startTime > 5 ) =>
        TimedPoses(keyframes) = FiveKeyframes(zoomRegions[1])

(* start = 5, end = 8, zoom 2, anchor (30, 70): keyframes at 0, 4.5, 5, 8, 8.8 *)
C7_Witness ==
    /\ lastOp = "derive"
    /\ manualKeyframes = <<StartKeyframe>>
    /\ zoomRegions = <<ZoomRegion("3", 500, 800, 200, 30, 70)>>
    /\ mouseEvents = <<>>
    /\ Len(keyframes) = 5
    /\ [ i \in 1..5 |-> keyframes[i].time ] = <<0, 450, 500, 800, 880>>

DownEvents == { i \in 1..Len(mouseEvents) : mouseEvents[i].type = "mousedown" }

RegionOfDown(region, e) ==
    /\ region.startTime = e.time
    /\ region.endTime = e.time + 300
    /\ region.targetZoom >= 200
    /\ region.targetZoom <= 250
    /\ region.initialX = e.x
    /\ region.initialY = e.y

(* C8: event-driven synthesis produces exactly one region per 'down' event  *)
(* and none for other event types: for a down event at tc and (x, y) the    *)
(* region is {start tc, end tc + 3.0, zoom in [2.0, 2.5], anchor (x, y)},   *)
(* and the number of regions equals the number of down events.              *)
C8_OneRegionPerDownEvent ==
    lastOp = "generateKeyframesFromEvents" =>
        /\ Len(zoomRegions) = Cardinality(DownEvents)
        /\ \A i \in DownEvents :
              \E r \in 1..Len(zoomRegions) : RegionOfDown(zoomRegions[r], mouseEvents[i])
        /\ \A r \in 1..Len(zoomRegions) :
              \E i \in DownEvents : RegionOfDown(zoomRegions[r], mouseEvents[i])

C8_Witness ==
    /\ lastOp = "generateKeyframesFromEvents"
    /\ Len(zoomRegions) = 2
    /\ Len(mouseEvents) > Len(zoomRegions)
    /\ zoomRegions[1].startTime # zoomRegions[2].startTime

(* C9: synthesis replaces the trajectory wholesale: after it the regions    *)
(* are exactly the synthesized ones and the manual keyframes are exactly    *)
(* the single 'start' keyframe, whatever existed before; and a second run   *)
(* right after the first changes nothing.                                   *)
C9_SynthesisReplaces ==
    [][ lastOp' = "generateKeyframesFromEvents" =>
          /\ manualKeyframes' = <<StartKeyframe>>
          /\ zoomRegions' = RegionsFromClicks(mouseEvents)
          /\ \A r \in 1..Len(zoomRegions') :
                zoomRegions'[r].id = "auto-region-" \o ToString(r - 1)
          /\ lastOp = "generateKeyframesFromEvents" =>
                UNCHANGED <<manualKeyframes, zoomRegions, keyframes>> ]_vars

(* A selection that names no item: the item was there when synthesis ran. *)
C9_Witness ==
    /\ lastOp = "generateKeyframesFromEvents"
    /\ Len(zoomRegions) >= 1
    /\ selectedKeyframeId # Null
    /\ selectedKeyframeId \notin Ids(manualKeyframes)
    /\ selectedRegionId # Null
    /\ selectedRegionId \notin Ids(zoomRegions)

(* C10: synthesis run with an empty event stream falls back to motion       *)
(* analysis, and when that yields no keyframes the effective trajectory is  *)
(* only the 'start' keyframe (time 0, zoom 1, x 50, y 50), whatever manual  *)
(* keyframes and regions existed before.                                    *)
C10_FallbackLeavesOnlyStart ==
    lastOp = "analyzeMotionFallback" => keyframes = <<StartKeyframe>>

(* C11: during an export the source times of the frames composited and     *)
(* handed to the encoder are strictly increasing from one frame to the     *)
(* next, under every interleaving with the user actions available during   *)
(* the export (timeline seek, play/pause toggle).                          *)
C11_FrameTimesIncrease ==
    \A i \in 1..(Len(export.frames) - 1) :
        export.frames[i].time < export.frames[i + 1].time

(* C12: the export loop stops scheduling frames only when the source has   *)
(* ended or is paused; at that step, and only then, the encoder is         *)
(* finalized, once per export, and no frame is composited after it.        *)
C12_FinalizedOnceAtEndOrPause ==
    [][ /\ (export.pc = "scheduled" /\ export'.pc # "scheduled") =>
              /\ video.ended \/ video.paused
              /\ export'.pc = "stopping"
              /\ export'.finalized = 1
        /\ (export.pc = "scheduled" /\ export.due /\ export'.due = FALSE
              /\ (video.ended \/ video.paused)) =>
              export'.pc = "stopping"
        /\ export'.finalized # export.finalized =>
              \/ /\ export.pc = "scheduled"
                 /\ video.ended \/ video.paused
                 /\ export.finalized = 0
                 /\ export'.finalized = 1
              \/ /\ export'.pc = "waitSeek"
                 /\ export'.finalized = 0
        /\ (export.finalized > 0 /\ export'.pc # "waitSeek") =>
              export'.frames = export.frames ]_vars

C12_Witness ==
    /\ export.pc = "stopping"
    /\ export.finalized = 1
    /\ video.paused
    /\ ~video.ended
    /\ Len(export.frames) >= 1

(* C13: after each mutation the effective trajectory equals the compilation *)
(* of the current manual keyframes, regions and events, so no export frame  *)
(* is computed from a trajectory that is stale with respect to them.        *)
C13_NoStaleExportFrame ==
    [][ Len(export'.frames) > Len(export.frames) =>
          /\ keyframes = DeriveKeyframes(manualKeyframes, zoomRegions, mouseEvents)
          /\ export.keyframes = DeriveKeyframes(manualKeyframes, zoomRegions,
                                                mouseEvents) ]_vars

(* C14: the step that ends a motion analysis, by success or by failure,    *)
(* leaves the video at the position it had when the analysis began and      *)
(* clears isAnalyzing; the failing end installs no keyframes.               *)
C14_AnalysisRestoresPosition ==
    [][(analysis.pc = "running" /\ analysis'.pc \in {"done", "failed"}) =>
          /\ video'.currentTime = analysis.originalTime
          /\ ~isAnalyzing'
          /\ (analysis'.pc = "failed" => keyframes' = keyframes)]_vars

(* a failed analysis that had moved the video and already generated         *)
(* keyframes, started away from time 0                                      *)
C14_Witness ==
    /\ analysis.pc = "failed"
    /\ analysis.index >= 3
    /\ Len(analysis.st.generatedKeyframes) > 1
    /\ analysis.originalTime = 100
    /\ video.currentTime = 100
    /\ keyframes = <<StartKeyframe>>

(* C15: when the 2D context cannot be acquired the export aborts and the   *)
(* editor returns to its idle state (isExporting false), so that a later   *)
(* export can still be started.                                            *)
C15_AbortReturnsToIdle ==
    export.pc = "aborted" => (~isExporting /\ ENABLED handleExport(TRUE))

(* C16: while an export is in progress nothing but the export loop and the *)
(* playback it started changes the source video's playback position or     *)
(* paused state.                                                           *)
C16_ExportOwnsTheVideo ==
    [][ (ExportRunning /\ video' # video) =>
          (exportPlay \/ displayFrame(FrameAdvance)) ]_vars

(* C17: every zoom region has startTime < endTime, targetZoom >= 1 and an   *)
(* anchor with x and y in [0, 100], after any sequence of region creation,  *)
(* resize drags, anchor drags and synthesis from the recorded events.       *)
C17_RegionsWellFormed ==
    \A i \in 1..Len(zoomRegions) :
        /\ zoomRegions[i].startTime < zoomRegions[i].endTime
        /\ zoomRegions[i].targetZoom >= 100
        /\ zoomRegions[i].initialX \in 0..100
        /\ zoomRegions[i].initialY \in 0..100

(* a region resized down to the minimum duration whose anchor was dragged   *)
(* past both edges of the stage                                             *)
C17_Witness ==
    \E i \in 1..Len(zoomRegions) :
        /\ zoomRegions[i].endTime = zoomRegions[i].startTime + MIN_REGION_DURATION
        /\ zoomRegions[i].initialX = 0
        /\ zoomRegions[i].initialY = 100

(* C18: the event sequence a recording session delivers has non-decreasing *)
(* time, coordinates x and y in [0, 100], and only events received between  *)
(* the start and the stop of that recording.                                *)
C18_DeliveredEventsWellFormed ==
    recorder.delivered.made =>
        LET events == recorder.delivered.events
            length == recorder.delivered.stoppedAt - recorder.delivered.startedAt
        IN  /\ \A i \in 1..(Len(events) - 1) : events[i].time <= events[i + 1].time
            /\ \A i \in 1..Len(events) :
                  /\ ~events[i].x.nan /\ events[i].x.val \in 0..100
                  /\ ~events[i].y.nan /\ events[i].y.val \in 0..100
                  /\ events[i].time \in 0..length

(* one component of the camera over a smoothing step: it stays on the      *)
(* target, or gets strictly closer to it without passing it                 *)
TowardOrAt(before, after, target) ==
    IF before = target THEN after = target
    ELSE /\ Abs(target - after) < Abs(target - before)
         /\ (before < target => after <= target)
         /\ (before > target => after >= target)

(* C19: with a constant target, repeated smoothing steps bring the camera's *)
(* x, y and zoom exactly onto the target after finitely many steps (at most *)
(* SettleSteps), where they stay; before that each step moves each component strictly toward    *)
(* the target without passing it.                                           *)
C19_SettlesOnTarget ==
    /\ [][LET target == TargetOf(keyframes, video.currentTime)
          IN  /\ TowardOrAt(virtualCamera.x, virtualCamera'.x, target.x)
              /\ TowardOrAt(virtualCamera.y, virtualCamera'.y, target.y)
              /\ TowardOrAt(virtualCamera.zoom, virtualCamera'.zoom, target.zoom)]_vars
    /\ [](smoothSteps >= SettleSteps =>
             virtualCamera = TargetOf(keyframes, video.currentTime))

(* the camera settled on keyframe b after a long approach *)
C19_Witness ==
    /\ smoothSteps > 100
    /\ virtualCamera = TargetOf(keyframes, video.currentTime)
    /\ virtualCamera.x = 25 * POS_SCALE
    /\ virtualCamera.zoom = 120 * ZOOM_SCALE

(* C20: the easing is the same function in preview and export, so for the  *)
(* same trajectory and time the preview's camera target and the export's    *)
(* pose are equal.                                                          *)
C20_SameTargetInPreviewAndExport ==
    SamePose(cameraTarget, framePose)

(* C21: between adjacent keyframes k1 and k2 the easing applied to the      *)
(* progress is the one named on k2: a segment whose k2 is 'linear' is        *)
(* interpolated with eased progress equal to the raw progress, in preview   *)
(* and in export.                                                           *)
C21_EasingNamedOnK2 ==
    lastOp = "sample" =>
        LET nextKeyframeIndex == FindIndexAfter(keyframes, sampleTime)
        IN  (nextKeyframeIndex > 1 /\ keyframes[nextKeyframeIndex].easing = "linear") =>
                LET k1 == keyframes[nextKeyframeIndex - 1]
                    k2 == keyframes[nextKeyframeIndex]
                    linearPose == Lerp2(k1, k2, Progress(sampleTime, k1, k2))
                IN  /\ SamePose(cameraTarget, linearPose)
                    /\ SamePose(framePose, linearPose)

(* C22: when playback is paused and the timeline is scrubbed to a time t,   *)
(* the render that follows puts the virtual camera on the interpolator's    *)
(* pose at t, whatever the camera was before the scrub.                     *)
C22_ScrubJumpsToTarget ==
    (~isPlaying /\ smoothSteps > 0 /\ sampleTime = video.currentTime
        /\ preview.deps = Deps) =>
        virtualCamera = TargetOf(keyframes, video.currentTime)

(* The scan C23 describes: arr[i] survives if and only if it is more than   *)
(* DEBOUNCE_GAP after the last keyframe that survived, at time last          *)
RECURSIVE SurvivorsFrom(_, _, _)
SurvivorsFrom(arr, i, last) ==
    IF i > Len(arr) THEN <<>>
    ELSE IF arr[i].time - last > DEBOUNCE_GAP
         THEN <<arr[i]>> \o SurvivorsFrom(arr, i + 1, arr[i].time)
         ELSE SurvivorsFrom(arr, i + 1, last)

Survivors(arr) ==
    IF Len(arr) = 0 THEN <<>> ELSE <<arr[1]>> \o SurvivorsFrom(arr, 2, arr[1].time)

(* C23: the debounce pass keeps the first keyframe of the time-sorted list  *)
(* and each later keyframe if and only if it is more than 0.05 s after the  *)
(* last keyframe that survived.                                             *)
C23_DebounceAgainstLastSurvivor ==
    lastOp = "derive" =>
        keyframes = Survivors(SortByTime(manualKeyframes
                                         \o AllRegionKeyframes(zoomRegions, mouseEvents, 1)))

(* C24: for a region compiled with an event stream, the hold keyframe at    *)
(* the region's end carries the position of the last follow keyframe        *)
(* emitted for that region, or the region's anchor when none was emitted.   *)
C24_HoldAtLastFollowedPosition ==
    (lastOp = "derive" /\ Len(mouseEvents) > 0) =>
        \A r \in 1..Len(zoomRegions) :
            LET region == zoomRegions[r]
                hold == Find(RegionKeyframes(region, mouseEvents),
                             RegionKeyframeId(region, "hold"))
                moves == SelectSeq(mouseEvents, LAMBDA e : IsRegionMove(region, e))
                follows == FollowKeyframes(region, moves, 1, region.startTime)
            IN  IF Len(follows) > 0
                THEN /\ hold.x = follows[Len(follows)].x
                     /\ hold.y = follows[Len(follows)].y
                ELSE /\ hold.x = region.initialX
                     /\ hold.y = region.initialY

(* The times at which C25 samples a region: its start, its end and the     *)
(* time of every keyframe of the trajectory between them                    *)
RegionSampleTimes(region, kfs) ==
    {region.startTime, region.endTime}
        \cup { kfs[i].time : i \in { n \in 1..Len(kfs) :
                                        /\ kfs[n].time >= region.startTime
                                        /\ kfs[n].time <= region.endTime } }

(* C25: for every region and every time t with startTime <= t <= endTime,   *)
(* the zoom sampled from the compiled trajectory equals the region's        *)
(* targetZoom, also when regions overlap in time.                           *)
C25_ZoomedThroughoutRegion ==
    lastOp = "derive" =>
        \A r \in 1..Len(zoomRegions) :
            \A t \in RegionSampleTimes(zoomRegions[r], keyframes) :
                LET pose == RenderFramePose(keyframes, t)
                IN  pose.zoom = zoomRegions[r].targetZoom * pose.den

(* The dwell rule as C26 states it.  A sample is near-zero when it changes  *)
(* at most MIN_CHANGED_PIXELS pixels; run is the length of the run of       *)
(* consecutive near-zero samples before sample i, zoomed whether the        *)
(* analysis is zoomed in.  Any other sample ends the run, and zooms out.    *)
RECURSIVE DwellZoomIns(_, _, _, _)
DwellZoomIns(diffs, i, run, zoomed) ==
    IF i > Len(diffs) THEN {}
    ELSE IF diffs[i].diffCount <= MIN_CHANGED_PIXELS
         THEN IF run + 1 >= DWELL_FRAMES /\ ~zoomed
              THEN {i} \cup DwellZoomIns(diffs, i + 1, run + 1, TRUE)
              ELSE DwellZoomIns(diffs, i + 1, run + 1, zoomed)
         ELSE DwellZoomIns(diffs, i + 1, 0, FALSE)

(* The samples at which the analysis emitted a zoom-in keyframe *)
EmittedZoomIns(generatedKeyframes) ==
    { i \in 1..MaxSamples :
        \E n \in 1..Len(generatedKeyframes) :
            generatedKeyframes[n].id = "zoom-" \o ToString(ANALYSIS_INTERVAL * i) }

(* C26: the motion analysis emits a zoom-in keyframe at a sample exactly    *)
(* when that sample is at least the second of a run of consecutive          *)
(* near-zero samples and the analysis is not already zoomed; a large        *)
(* difference between two near-zero samples breaks the run, and after a     *)
(* zoom-out a fresh run of two near-zero samples zooms in again.            *)
C26_ZoomInOnDwell ==
    analysis.pc \in {"running", "failed", "done"} =>
        EmittedZoomIns(analysis.st.generatedKeyframes)
            = DwellZoomIns(analysis.diffs, 1, 0, FALSE)

(* C27: at most one preview-loop callback is requested at any time; none   *)
(* remains requested once the effect has run for a paused or ended video,   *)
(* or once the editor is torn down; while paused a render happens only as   *)
(* the one synchronous render of an effect run, which a change of a         *)
(* dependency (time, trajectory, events, isPlaying) causes.                 *)
C27_OneScheduledCallback ==
    /\ [](Cardinality(preview.scheduled) <= 1)
    /\ []((preview.deps = Deps /\ (video.paused \/ video.ended)) => preview.scheduled = {})
    /\ [](~preview.mounted => preview.scheduled = {})
    /\ [][(preview.mounted /\ ~isPlaying /\ preview.deps = Deps) =>
             smoothSteps' = smoothSteps]_vars
    /\ [][(preview.deps # Deps /\ preview'.deps # preview.deps /\ ~isPlaying) =>
             smoothSteps' = smoothSteps + 1]_vars

(* playback was stopped while a callback was requested, the effect has run  *)
(* again and rendered once, and no callback is left                         *)
C27_Witness ==
    /\ preview.mounted
    /\ ~isPlaying
    /\ video.paused
    /\ ~video.ended
    /\ video.currentTime > 0
    /\ preview.deps = Deps
    /\ preview.scheduled = {}
    /\ smoothSteps >= 3

(* C28: a zero-length segment never produces an error or an undefined      *)
(* pose.  For every non-empty time-sorted trajectory, two keyframes at one  *)
(* time included, and every t, each interpolator holds a boundary pose or   *)
(* interpolates between k1 and k2 with k2.time - k1.time > 0 and progress   *)
(* in [0, 1); at the shared time of equal-time keyframes the result is the  *)
(* pose of the later one.                                                   *)
C28_NoZeroLengthSegment ==
    lastOp = "sample" =>
        LET nextKeyframeIndex == FindIndexAfter(keyframes, sampleTime)
        IN  /\ cameraTarget.den > 0
            /\ framePose.den > 0
            /\ IF nextKeyframeIndex = 1
               THEN /\ cameraTarget = PoseOf(keyframes[1])
                    /\ framePose = PoseOf(keyframes[1])
               ELSE IF nextKeyframeIndex = 0
               THEN /\ cameraTarget = PoseOf(keyframes[Len(keyframes)])
                    /\ framePose = PoseOf(keyframes[Len(keyframes)])
               ELSE LET k1 == keyframes[nextKeyframeIndex - 1]
                        k2 == keyframes[nextKeyframeIndex]
                        progress == Progress(sampleTime, k1, k2)
                    IN  /\ k2.time - k1.time > 0
                        /\ progress.n >= 0
                        /\ progress.n < progress.d
                        /\ cameraTarget = Lerp2(k1, k2, easeInOutCubic(progress))
                        /\ framePose = Lerp2(k1, k2, ease(progress))
            /\ \A j \in 1..Len(keyframes) :
                  (/\ keyframes[j].time = sampleTime
                   /\ (j = Len(keyframes) \/ keyframes[j + 1].time > sampleTime)) =>
                      /\ SamePose(cameraTarget, PoseOf(keyframes[j]))
                      /\ SamePose(framePose, PoseOf(keyframes[j]))

(* sampled at the time two keyframes with different poses share, with a     *)
(* keyframe after them                                                      *)
C28_Witness ==
    /\ lastOp = "sample"
    /\ \E j \in 2..(Len(keyframes) - 1) :
          /\ keyframes[j - 1].time = sampleTime
          /\ keyframes[j].time = sampleTime
          /\ keyframes[j + 1].time > sampleTime
          /\ PoseOf(keyframes[j - 1]) # PoseOf(keyframes[j])
          /\ SamePose(cameraTarget, PoseOf(keyframes[j]))

(* The type and time of each event of a sequence *)
TypesAndTimes(events) ==
    [ i \in 1..Len(events) |-> <<events[i].type, events[i].time>> ]

(* C29: after a recording that captured a non-empty event sequence E        *)
(* completes and the record page switches to the editor, the editor is      *)
(* shown and its event stream equals E.                                     *)
C29_EventsReachEditor ==
    (lastOp = "renderEditor" /\ Len(recorder.delivered.events) > 0) =>
        /\ preview.mounted
        /\ TypesAndTimes(mouseEvents) = TypesAndTimes(recorder.delivered.events)

(* C30: each started recording has onRecordingComplete called exactly     *)
(* once, whatever the number of stop requests: never more calls than        *)
(* recordings started, and as many once no recorder has a stop event to     *)
(* fire; when the result is delivered no global-event listener is           *)
(* registered any more; and the event list that was delivered does not      *)
(* change afterwards, a later recording included.                           *)
C30_DeliveredOnceAndFrozen ==
    /\ [](recorder.deliveries <= recorder.started)
    /\ []((~Active(recorder) /\ ~Active(recorder.orphan))
             => recorder.deliveries = recorder.started)
    /\ [][recorder'.deliveries # recorder.deliveries
             => (~recorder'.listening /\ recorder'.orphanListeners = 0)]_vars
    /\ [][(recorder.delivered.made /\ recorder'.deliveries = recorder.deliveries)
             => recorder'.delivered.events = recorder.delivered.events]_vars

====
